---- MODULE Spec2Model ----
(***************************************************************************)
(* Verification model of the CRAS audio server core.                       *)
(*                                                                         *)
(*   ClientSpec  - the libcras control task: socket state machine and      *)
(*                 notification re-registration (cras_client.c).           *)
(*   StreamSpec  - the same task with the client's stream list.            *)
(*   RoutingSpec - the server's device list and routing policy, with       *)
(*                 suspend, init retries and a device that fails to open   *)
(*                 (cras_iodev_list.c).                                    *)
(*   NcSpec      - the device list under every setting of the noise        *)
(*                 cancellation flags of the system state.                 *)
(*   ChannelSpec - the device list with streams of two channel counts and  *)
(*                 the re-open of a device at a higher channel count.      *)
(*   HotwordSpec - the device list with a hotword stream, its device and   *)
(*                 the pause of hotword streams over suspend.              *)
(*   FloopSpec   - device indexes and the flexible loopback pairs.         *)
(*   AudioSpec   - the control task with the audio task of a stream and    *)
(*                 the stream pipe between them.                           *)
(*   ConnectSpec - the blocking connect calls of an application, with or   *)
(*                 without a running control task.                         *)
(*   IdleSpec    - the device list with playback and capture streams, node *)
(*                 selection and the idle timer of the output devices.     *)
(*   NodeSpec    - the node calls of the device list: select, add and      *)
(*                 disable, with a device that fails to open.              *)
(*   ShmSpec     - a reader of the server state region against the updates *)
(*                 of the server.                                          *)
(*   CommandSpec - application threads that send commands to the control   *)
(*                 task and read the replies.                              *)
(*   TimerSpec   - the device list with the idle timers it arms.           *)
(*   ClientLiveSpec - ClientSpec with the fairness of the control loop.    *)
(*   MessageSpec - the messages of a client as the server handles them     *)
(*                 (cras_control_rclient.c).                               *)
(*   WaitSpec    - the wait for a file with its inotify instance and the   *)
(*                 file system under it (cras_file_wait.c).                *)
(*                                                                         *)
(* Every handler of the control loop / every exported routing entry point  *)
(* is one action.  Calls to the kernel or to collaborators outside the     *)
(* modelled files are inputs of the action, drawn from small sets.         *)
(***************************************************************************)
EXTENDS Integers, Sequences, FiniteSets, TLC

(***************************************************************************)
(* Bounds of the model.                                                    *)
(***************************************************************************)
\* Live client streams the application keeps at once.
MaxStreams == 2
\* Scaled-down width of the stream index part of a stream id (2^16 in C).
StreamIdxMod == 3

(***************************************************************************)
(* Small helpers.                                                          *)
(***************************************************************************)
Range(f) == {f[i] : i \in DOMAIN f}
SeqRemoveAt(s, i) == SubSeq(s, 1, i - 1) \o SubSeq(s, i + 1, Len(s))
Max2(a, b) == IF a >= b THEN a ELSE b
\* CRAS_STREAM_OUTPUT, CRAS_STREAM_INPUT
Directions == {"OUTPUT", "INPUT"}

(***************************************************************************)
(* State of the server's device list (cras_iodev_list.c), modelled in      *)
(* PART II.                                                                *)
(***************************************************************************)
VARIABLES
  enabled_devs,                   \* enabled_devs[dir], lists of devices
  open_devs,                      \* devices whose state is not CLOSE
  idle_devs,                      \* devices with an idle_timeout set
  stream_list,                    \* the streams of stream_list
  attached,                       \* audio thread: <<stream id, device>>
  init_retries,                   \* pending dev_init_retry records
  stream_list_suspended,
  non_dsp_aec_echo_ref_dev_alive,
  aec_on_dsp_is_disallowed,
  sys_state,                      \* cras_system_state flags read by the list
  broken,                         \* environment: the device that cannot open
  slog,                           \* what the last entry point did, in order
  dev_format,                     \* dev->format->num_channels, 0 when closed
  main_log,                       \* routing events of the last entry point
  hotword_suspended,
  hotword_auto_resume,
  hotword_pause_at_suspend,       \* cras_system_get_hotword_pause_at_suspend
  active_node,                    \* dev->active_node->idx of each device
  idle_timers                     \* idle_dev_check timers armed in cras_tm

server_vars == <<enabled_devs, open_devs, idle_devs, stream_list, attached,
                 init_retries, stream_list_suspended,
                 non_dsp_aec_echo_ref_dev_alive, aec_on_dsp_is_disallowed,
                 sys_state, broken, slog, dev_format, main_log,
                 hotword_suspended, hotword_auto_resume,
                 hotword_pause_at_suspend, active_node, idle_timers>>

(***************************************************************************)
(* The device index allocator and the flexible loopback pairs of the       *)
(* device list, modelled in PART III.                                      *)
(***************************************************************************)
VARIABLES
  dev_lists,                      \* devs[dir].iodevs, as lists of info.idx
  next_iodev_idx,
  floop_pair_list,                \* pairs: params, input and output idx
  floop_feature,                  \* CrOSLateBootAudioFlexibleLoopback
  floop_ret                       \* the last floop request and its result

floop_vars == <<dev_lists, next_iodev_idx, floop_pair_list, floop_feature,
                floop_ret>>

(***************************************************************************)
(* The wait for a file of cras_file_wait.c, modelled in PART V.            *)
(***************************************************************************)
VARIABLES
  file_wait,                      \* struct cras_file_wait
  fs_depth,                       \* environment: components that exist
  inotify,                        \* the inotify instance: watches, events
  wait_cb,                        \* what the last dispatch did and returned
  announced                       \* CREATED was reported for the file as it is

wait_vars == <<file_wait, fs_depth, inotify, wait_cb, announced>>

(***************************************************************************)
(*                        PART I - libcras client                          *)
(***************************************************************************)
VARIABLES
  id,                   \* client->id, -1 until connected
  server_fd,            \* client->server_fd: "none" (-1), "sock" or "timer"
  server_fd_state,      \* client->server_fd_state
  server_event_fd,      \* value held by the eventfd
  sock_file_exists,     \* client->sock_file_exists
  next_stream_id,       \* client->next_stream_id (kept modulo StreamIdxMod)
  streams,              \* client->streams, a list of [id]
  server_state,         \* TRUE when the server-state shm is mapped
  server_connection_cb, \* TRUE when a connection status cb is set
  observer_ops,         \* notification types with a callback set
  trace,                \* what the last handler did, in order
  reported_status,      \* status last passed to the connection status cb
  file,                 \* environment: the socket file exists
  listening,            \* environment: the server accepts on the socket
  conn,                 \* environment: state of the client's socket
  inbox,                \* environment: server messages not yet read
  fw_events             \* environment: file-watch events not yet dispatched

\* The audio tasks of the client's streams and the stream pipe.
VARIABLES
  aud_threads,          \* stream id -> the stream's audio task
  stream_pipe,          \* client->stream_fds: stream_msg records not yet read
  aud_last              \* what the last audio task iteration did

audio_vars == <<aud_threads, stream_pipe, aud_last>>

\* The control task of the client and the application thread that is inside
\* a blocking connect call.
VARIABLES
  thread_running,       \* client->thread.state is not CRAS_THREAD_STOP
  blocking              \* where the caller of a blocking connect stands

\* The server state shm with its writer and a reader, and the command pipes
\* between the application threads and the control task.
VARIABLES
  shm_state,            \* server state: update_count, two areas, the writer
  state_reader,         \* an application thread inside a server state getter
  command_pipe,         \* client->command_fds: commands not yet read
  command_reply_pipe,   \* client->command_reply_fds: replies not yet read
  app_threads           \* the threads that call send_command_message

app_vars == <<shm_state, state_reader, command_pipe, command_reply_pipe,
              app_threads>>

api_vars == <<thread_running, blocking, app_vars>>

non_client_vars == <<server_vars, floop_vars, wait_vars, api_vars>>

client_vars == <<id, server_fd, server_fd_state, server_event_fd,
                 sock_file_exists, next_stream_id, streams, server_state,
                 server_connection_cb, observer_ops, trace, reported_status,
                 file, listening, conn, inbox, fw_events>>

non_server_vars == <<client_vars, floop_vars, wait_vars, audio_vars,
                     api_vars>>

\* cras_socket_state_t
SocketStates == {"DISCONNECTED", "WAIT_FOR_SOCKET", "WAIT_FOR_WRITABLE",
                 "FIRST_MESSAGE", "CONNECTED", "ERROR_DELAY"}

\* The state-change notifications of struct cras_observer_ops, in the order
\* reregister_notifications walks them (two of the ten are modelled).
NotifyTypes == <<"OUTPUT_VOLUME_CHANGED", "NODES_CHANGED">>

\* One entry of the handler trace.
Ev(k, a, f, b) == [k |-> k, a |-> a, f |-> f, b |-> b]
Log(c, k, a, f, b) == [c EXCEPT !.trace = Append(@, Ev(k, a, f, b))]
R(c, rc) == [c |-> c, rc |-> rc]

\* The client as one record, and its write-back.
Client ==
  [id |-> id, server_fd |-> server_fd, server_fd_state |-> server_fd_state,
   server_event_fd |-> server_event_fd, sock_file_exists |-> sock_file_exists,
   next_stream_id |-> next_stream_id, streams |-> streams,
   server_state |-> server_state, server_connection_cb |-> server_connection_cb,
   observer_ops |-> observer_ops, trace |-> <<>>, conn |-> conn,
   inbox |-> inbox]

\* The connection status callbacks of a handler trace, in order.
IsConnectionCb(ev) == ev.k = "connection_cb"
ConnectionCbs(tr) == SelectSeq(tr, IsConnectionCb)

\* The status the callback has seen last, after a handler with trace tr.
last_reported(before, tr) ==
  IF ConnectionCbs(tr) = <<>> THEN before
  ELSE ConnectionCbs(tr)[Len(ConnectionCbs(tr))].a

SetClient(c) ==
  /\ id' = c.id
  /\ reported_status' = last_reported(reported_status, c.trace)
  /\ server_fd' = c.server_fd
  /\ server_fd_state' = c.server_fd_state
  /\ server_event_fd' = c.server_event_fd
  /\ sock_file_exists' = c.sock_file_exists
  /\ next_stream_id' = c.next_stream_id
  /\ streams' = c.streams
  /\ server_state' = c.server_state
  /\ server_connection_cb' = c.server_connection_cb
  /\ observer_ops' = c.observer_ops
  /\ trace' = c.trace
  /\ conn' = c.conn
  /\ inbox' = c.inbox

\* Outcomes of the system calls one handler makes.
\*   fd_ok       socket() / timerfd_create() returned a descriptor
\*   connect_rc  what connect() answers when a server listens
\*   write_fail  which write of the handler fails (0: none)
\*   stale_next  a read of freed list memory still yields the old link
\*   thread_ok   start_aud_thread succeeded
\*   send_ok     sendmsg of the stream connect message succeeded
NoFault ==
  [fd_ok |-> TRUE, connect_rc |-> "OK", write_fail |-> 0,
   stale_next |-> TRUE, thread_ok |-> TRUE, send_ok |-> TRUE]

ConnectOutcomes ==
  {[NoFault EXCEPT !.fd_ok = f, !.connect_rc = r, !.stale_next = n] :
     f \in BOOLEAN, r \in {"OK", "EINPROGRESS", "OTHER"}, n \in BOOLEAN}

DispatchOutcomes ==
  {[o EXCEPT !.write_fail = w] :
     o \in ConnectOutcomes, w \in 0..Len(NotifyTypes)}

AddStreamOutcomes ==
  {[NoFault EXCEPT !.thread_ok = t, !.send_ok = m] :
     t \in BOOLEAN, m \in BOOLEAN}

server_fd_move_to_state(c, state) ==
  IF state = c.server_fd_state THEN c
  ELSE Log([c EXCEPT !.server_fd_state = state], "state", state,
           c.server_fd_state, 0)

\* close(client->server_fd)
close_server_fd(c) ==
  [c EXCEPT !.server_fd = "none", !.conn = "none", !.inbox = <<>>]

\* Variant that leaves the delay for the connect itself.
C24_mutant_error_delay_next_action(c, revents, e) ==
  IF c.server_fd = "none"
  THEN IF e.fd_ok THEN R([c EXCEPT !.server_fd = "timer"], "OK")
       ELSE R(c, "ERR")
  ELSE IF "IN" \notin revents THEN R(c, "OK")
  ELSE R(server_fd_move_to_state(close_server_fd(c), "WAIT_FOR_WRITABLE"), "OK")

error_delay_next_action(c, revents, e) ==
  IF c.server_fd = "none"
  THEN IF e.fd_ok THEN R([c EXCEPT !.server_fd = "timer"], "OK")
       ELSE R(c, "ERR")
  ELSE IF "IN" \notin revents THEN R(c, "OK")
  ELSE R(server_fd_move_to_state(close_server_fd(c), "WAIT_FOR_SOCKET"), "OK")

\* Variant that does not look at sock_file_exists.
C1_mutant_wait_for_socket_next_action(c) ==
  server_fd_move_to_state(c, "WAIT_FOR_WRITABLE")

wait_for_socket_next_action(c) ==
  IF c.sock_file_exists
  THEN server_fd_move_to_state(c, "WAIT_FOR_WRITABLE")
  ELSE c

\* connect(2) on the socket file: ENOENT without the file, ECONNREFUSED
\* while nobody listens, otherwise what the kernel answers.
connect_result(e) ==
  IF ~file THEN "OTHER"
  ELSE IF ~listening THEN "ECONNREFUSED"
  ELSE e.connect_rc

\* connect() and what follows it in wait_for_writable_next_action.
connect_to_socket(c1, rc) ==
  CASE rc = "OK" ->
         R(server_fd_move_to_state([c1 EXCEPT !.conn = "up"], "FIRST_MESSAGE"),
           "OK")
    [] rc = "ECONNREFUSED" -> R(close_server_fd(c1), "OK")
    [] rc = "EINPROGRESS" -> R([c1 EXCEPT !.conn = "inprogress"], "OK")
    [] OTHER -> R(c1, "ERR")

wait_for_writable_next_action(c, revents, e) ==
  IF c.server_fd = "none" /\ ~e.fd_ok THEN R(c, "ERR")
  ELSE IF c.server_fd # "none" /\ "OUT" \notin revents THEN R(c, "OK")
  ELSE connect_to_socket([c EXCEPT !.server_fd = "sock"], connect_result(e))

\* write(client->server_fd, msg): the k-th write of the handler.
write_result(c, e, k) ==
  IF c.server_fd_state \in {"CONNECTED", "FIRST_MESSAGE"}
  THEN (IF c.conn # "up" THEN "EPIPE"
        ELSE IF e.write_fail = k THEN "ERR" ELSE "OK")
  ELSE "EPIPE"

write_message_to_server(c, e, k) ==
  IF write_result(c, e, k) # "OK" /\ c.server_fd_state # "FIRST_MESSAGE"
  THEN "EPIPE"
  ELSE write_result(c, e, k)

cras_send_register_notification(c, e, k) ==
  CASE write_message_to_server(c, e, k) = "OK" ->
         R(Log(c, "REGISTER_NOTIFICATION", NotifyTypes[k], "", 1), "OK")
    [] write_message_to_server(c, e, k) = "EPIPE" ->
         R(Log(c, "write_error", "EPIPE", "", 0), "OK")
    [] OTHER -> R(Log(c, "write_error", "ERR", "", 0), "ERR")

\* reregister_notifications from the k-th notification type on; r is the
\* outcome so far.
RECURSIVE reregister_from(_, _, _)
reregister_from(r, e, k) ==
  IF r.rc # "OK" \/ k > Len(NotifyTypes) THEN r
  ELSE IF NotifyTypes[k] \notin r.c.observer_ops
  THEN reregister_from(r, e, k + 1)
  ELSE reregister_from(cras_send_register_notification(r.c, e, k), e, k + 1)

\* Variant that registers nothing.
C2_mutant_reregister_notifications(c, e) == R(c, "OK")

reregister_notifications(c, e) == reregister_from(R(c, "OK"), e, 1)

\* The calls of connect_transition_action that follow the move to CONNECTED.
signal_connected(c) ==
  IF c.server_connection_cb
  THEN Log(Log([c EXCEPT !.server_event_fd = 1], "eventfd_write", "", "", 1),
           "connection_cb", "CONNECTED", "", 0)
  ELSE Log([c EXCEPT !.server_event_fd = 1], "eventfd_write", "", "", 1)

\* connect_transition_action once reregister_notifications returned r.
connect_transition_after(r) ==
  IF r.rc # "OK" THEN r
  ELSE R(signal_connected(server_fd_move_to_state(r.c, "CONNECTED")), "OK")

connect_transition_action(c, e) ==
  connect_transition_after(reregister_notifications(c, e))

client_attach_shm(c, m) ==
  IF c.server_state THEN R(c, "ERR")
  ELSE IF ~m.shm_ok THEN R(c, "ERR")
  ELSE R([c EXCEPT !.server_state = TRUE], "OK")

\* The CLIENT_CONNECTED case once client_attach_shm returned r.
client_connected_after(r, m) ==
  IF r.rc # "OK" THEN r
  ELSE R(Log([r.c EXCEPT !.id = m.client_id],
             "CLIENT_CONNECTED", "", "", m.client_id), "OK")

\* handle_message_from_server for the message m just read; c1 is the client
\* with the message taken off the socket.
handle_message(c1, m) ==
  IF ~m.len_ok THEN R(c1, "ERR")
  ELSE IF m.kind = "CLIENT_CONNECTED"
  THEN IF m.num_fds # 1 THEN R(c1, "ERR")
       ELSE client_connected_after(client_attach_shm(c1, m), m)
  ELSE IF m.kind \in c1.observer_ops
  THEN R(Log(c1, "observer_cb", m.kind, "", 0), "OK")
  ELSE R(c1, "OK")

handle_message_from_server(c, e) ==
  IF c.inbox = <<>> THEN R(c, "ERR")
  ELSE handle_message([c EXCEPT !.inbox = Tail(@)], Head(c.inbox))

\* Variant that does not look at the client id.
C25_mutant_first_message_after(r, e) ==
  IF r.rc # "OK" THEN r ELSE connect_transition_action(r.c, e)

\* first_message_next_action once handle_message_from_server returned r.
first_message_after(r, e) ==
  IF r.rc # "OK" THEN r
  ELSE IF r.c.id >= 0 THEN connect_transition_action(r.c, e)
  ELSE R(r.c, "ERR")

first_message_next_action(c, revents, e) ==
  IF c.server_fd = "none" THEN R(c, "ERR")
  ELSE IF "IN" \notin revents THEN R(c, "OK")
  ELSE first_message_after(handle_message_from_server(c, e), e)

stream_from_id(c, sid) ==
  IF \E i \in 1..Len(c.streams) : c.streams[i].id = sid
  THEN CHOOSE i \in 1..Len(c.streams) :
         /\ c.streams[i].id = sid
         /\ \A j \in 1..(i - 1) : c.streams[j].id # sid
  ELSE 0

\* client_thread_rm_stream for the stream found at position i of the list.
rm_stream_at(c, sid, i) ==
  IF c.server_fd_state = "CONNECTED"
  THEN Log([c EXCEPT !.streams = SeqRemoveAt(@, i)],
           "DISCONNECT_STREAM", "", "", sid)
  ELSE [c EXCEPT !.streams = SeqRemoveAt(@, i)]

client_thread_rm_stream(c, sid) ==
  IF stream_from_id(c, sid) = 0 THEN c
  ELSE rm_stream_at(c, sid, stream_from_id(c, sid))

\* DL_FOREACH over client->streams whose body frees the element it stands
\* on: the loop then reads s->next from freed memory.  The read yields the
\* old successor (stale_next) or, with the memory reused or poisoned, ends
\* the walk.
RECURSIVE stop_all_streams(_, _, _)
stop_all_streams(c, todo, e) ==
  IF todo = <<>> THEN c
  ELSE IF e.stale_next
  THEN stop_all_streams(
         client_thread_rm_stream(
           Log(c, "err_cb", "ENOTCONN", "", Head(todo).id), Head(todo).id),
         Tail(todo), e)
  ELSE client_thread_rm_stream(
         Log(c, "err_cb", "ENOTCONN", "", Head(todo).id), Head(todo).id)

\* Variant whose CONNECTED case is that of the connecting states.
C4_mutant_disconnect_transition_switch(old_state) ==
  IF old_state = "ERROR_DELAY" THEN [to |-> "DISCONNECTED", cb |-> "FAILED"]
  ELSE IF old_state = "DISCONNECTED" THEN [to |-> "DISCONNECTED", cb |-> ""]
  ELSE [to |-> "ERROR_DELAY", cb |-> ""]

\* The switch on old_state that ends disconnect_transition_action: the
\* state to move to and the connection status to report ("" for none).
disconnect_transition_switch(old_state) ==
  CASE old_state = "DISCONNECTED" -> [to |-> "DISCONNECTED", cb |-> ""]
    [] old_state = "ERROR_DELAY" -> [to |-> "DISCONNECTED", cb |-> "FAILED"]
    [] old_state \in {"WAIT_FOR_SOCKET", "WAIT_FOR_WRITABLE",
                      "FIRST_MESSAGE"} -> [to |-> "ERROR_DELAY", cb |-> ""]
    [] OTHER -> [to |-> "WAIT_FOR_SOCKET", cb |-> "DISCONNECTED"]

\* Variant that only closes the socket.
C38_mutant_disconnect_cleanup(c) ==
  [c EXCEPT !.server_fd = "none", !.conn = "none", !.inbox = <<>>]

\* The cleanup of disconnect_transition_action between the stream loop and
\* the switch: server_state unmapped, id unknown, fd closed, eventfd drained.
disconnect_cleanup(c) ==
  [c EXCEPT !.server_state = FALSE, !.id = -1, !.server_fd = "none",
            !.conn = "none", !.inbox = <<>>, !.server_event_fd = 0]

\* The move and the callback the switch asks for.
disconnect_move(c, sw) ==
  IF sw.cb # "" /\ c.server_connection_cb
  THEN Log(server_fd_move_to_state(c, sw.to), "connection_cb", sw.cb, "", 0)
  ELSE server_fd_move_to_state(c, sw.to)

disconnect_transition_action(c, force, e) ==
  disconnect_move(disconnect_cleanup(stop_all_streams(c, c.streams, e)),
                  disconnect_transition_switch(c.server_fd_state))

\* The switch on the state in server_fd_dispatch.
next_action(c, revents, e) ==
  CASE c.server_fd_state = "ERROR_DELAY" ->
         error_delay_next_action(c, revents, e)
    [] c.server_fd_state = "WAIT_FOR_SOCKET" ->
         R(wait_for_socket_next_action(c), "OK")
    [] c.server_fd_state = "WAIT_FOR_WRITABLE" ->
         wait_for_writable_next_action(c, revents, e)
    [] c.server_fd_state = "FIRST_MESSAGE" ->
         first_message_next_action(c, revents, e)
    [] c.server_fd_state = "CONNECTED" ->
         (IF "IN" \in revents THEN handle_message_from_server(c, e)
          ELSE R(c, "OK"))
    [] OTHER -> R(c, "ENOTCONN")

RECURSIVE server_fd_dispatch(_, _, _)
RECURSIVE dispatch_from(_, _, _)
RECURSIVE dispatch_again(_, _, _)

\* server_fd_dispatch once a hang-up has been handled.
dispatch_from(c, revents, e) ==
  dispatch_again(c.server_fd_state, next_action(c, revents, e), e)

\* The end of server_fd_dispatch: again with POLLHUP on an error, again
\* without events when the state changed.
dispatch_again(old_state, r, e) ==
  IF old_state = "DISCONNECTED" THEN r
  ELSE IF r.rc # "OK" THEN server_fd_dispatch(r.c, {"HUP"}, e)
  ELSE IF old_state # r.c.server_fd_state
  THEN server_fd_dispatch(r.c, {}, e)
  ELSE r

server_fd_dispatch(c, revents, e) ==
  IF "HUP" \in revents
  THEN dispatch_from(disconnect_transition_action(c, TRUE, e), revents, e)
  ELSE dispatch_from(c, revents, e)

\* server_connect with the value it returns.
server_connect_result(c, e) ==
  IF c.server_fd_state # "DISCONNECTED" THEN R(c, "OK")
  ELSE server_fd_dispatch(server_fd_move_to_state(c, "WAIT_FOR_SOCKET"),
                          {}, e)

server_connect(c, e) == server_connect_result(c, e).c

server_disconnect(c, e) ==
  IF c.server_fd_state = "DISCONNECTED" THEN c
  ELSE disconnect_transition_action(
         server_fd_move_to_state(c, "DISCONNECTED"), FALSE, e)

sock_file_wait_callback(c, event, e) ==
  IF event = "CREATED"
  THEN IF c.server_fd_state \in {"WAIT_FOR_SOCKET", "WAIT_FOR_WRITABLE"}
       THEN server_fd_dispatch([c EXCEPT !.sock_file_exists = TRUE], {}, e).c
       ELSE [c EXCEPT !.sock_file_exists = TRUE]
  ELSE IF c.server_fd_state = "DISCONNECTED"
       THEN [c EXCEPT !.sock_file_exists = FALSE]
       ELSE server_connect(
              server_disconnect([c EXCEPT !.sock_file_exists = FALSE], e), e)

\* cras_get_stream_id: the client id in the high half, the stream index in
\* the low half.
cras_get_stream_id(client_id, stream_idx) ==
  (client_id % StreamIdxMod) * StreamIdxMod + (stream_idx % StreamIdxMod)

\* Variant that takes the first id without looking at the list.
C5_mutant_find_stream_id(c) ==
  [c |-> [c EXCEPT !.next_stream_id = (@ + 1) % StreamIdxMod],
   new_id |-> cras_get_stream_id(c.id, c.next_stream_id)]

\* The do-while of client_thread_add_stream that looks for a free id.
RECURSIVE find_stream_id(_)
find_stream_id(c) ==
  IF stream_from_id(c, cras_get_stream_id(c.id, c.next_stream_id)) # 0
  THEN find_stream_id(
         Log([c EXCEPT !.next_stream_id = (@ + 1) % StreamIdxMod],
             "stream_id_in_use", "", "",
             cras_get_stream_id(c.id, c.next_stream_id)))
  ELSE [c |-> [c EXCEPT !.next_stream_id = (@ + 1) % StreamIdxMod],
        new_id |-> cras_get_stream_id(c.id, c.next_stream_id)]

\* send_connect_message can reach the server only over a connected socket.
send_connect_message(c, e) ==
  IF c.server_fd = "sock" /\ c.conn = "up" /\ e.send_ok THEN "OK" ELSE "EIO"

\* client_thread_add_stream once the id has been found.
add_stream_with_id(f, e) ==
  IF ~e.thread_ok THEN R(f.c, "ERR")
  ELSE IF send_connect_message(f.c, e) # "OK" THEN R(f.c, "EIO")
  ELSE R(Log([f.c EXCEPT !.streams = Append(@, [id |-> f.new_id])],
             "CONNECT_STREAM", "", "", f.new_id), "OK")

client_thread_add_stream(c, e) == add_stream_with_id(find_stream_id(c), e)

\* errno values.
EIO == 5
EAGAIN == 11
EINVAL == 22

\* The int client_thread_add_stream hands back: 0, the negated errno of
\* start_aud_thread, or the EIO send_connect_message returns without a sign.
add_stream_rc(r) ==
  CASE r.rc = "OK" -> 0
    [] r.rc = "EIO" -> EIO
    [] OTHER -> 0 - EAGAIN

\* send_command_message hands the caller what the control task replied, and
\* the caller treats only a negative reply as a failure.
add_stream_reply(r) ==
  R(r.c, IF add_stream_rc(r) < 0 THEN add_stream_rc(r) ELSE 0)

\* cras_client_add_stream and cras_client_add_pinned_stream; config_ok says
\* that the stream parameters carry the callbacks the call insists on.
cras_client_send_add_stream_command_message(c, config_ok, e) ==
  IF ~config_ok THEN R(c, 0 - EINVAL)
  ELSE add_stream_reply(client_thread_add_stream(c, e))

handle_command_message(c, msg, e) ==
  CASE msg.msg_id = "CLIENT_ADD_STREAM" -> client_thread_add_stream(c, e).c
    [] msg.msg_id = "CLIENT_REMOVE_STREAM" ->
         client_thread_rm_stream(c, msg.stream_id)
    [] OTHER -> server_connect(c, e)

(***************************************************************************)
(* The audio task of a stream (audio_thread) and the stream pipe.          *)
(***************************************************************************)
\* config->cb_threshold of the streams of the model.
CbThreshold == 2

Min2(a, b) == IF a <= b THEN a ELSE b

StreamIds(list) == {list[i].id : i \in DOMAIN list}

NoAudMsg == [id |-> "none", frames |-> 0, full |-> TRUE]
NoAudLast ==
  [sid |-> -1, msg |-> NoAudMsg, readable |-> 0, direction |-> "none",
   cb_frames |-> -1,
   cb_rc |-> 0, exit |-> "none"]

\* The audio tasks of the streams that are still in the list:
\* client_thread_rm_stream stops and joins the task of the stream it frees.
AudFollow ==
  /\ aud_threads' = [sid \in DOMAIN aud_threads \cap StreamIds(streams') |->
                       aud_threads[sid]]
  /\ aud_last' = NoAudLast
  /\ UNCHANGED stream_pipe

\* The task start_aud_thread creates.
NewAudThread(dir) ==
  [state |-> "WARMUP", alive |-> TRUE, direction |-> dir]

\* What one iteration of the audio task yields: the task, the records it
\* wrote to the stream pipe, and what it did.
AudResult(t, pipe, cb_frames, cb_rc, exit) ==
  [t |-> t, pipe |-> pipe, cb_frames |-> cb_frames, cb_rc |-> cb_rc,
   exit |-> exit]

StreamMsg(sid, msg_id) == [stream_id |-> sid, msg_id |-> msg_id]

\* send_playback_reply / send_capture_reply: the write to aud_fd.
send_reply(write_ok) == IF write_ok THEN "none" ELSE "EPIPE"

\* The task leaves its loop when the handler returned non-zero.
aud_after_handler(t, pipe, cb_frames, cb_rc, rc) ==
  AudResult([t EXCEPT !.alive = (rc = "none")], pipe, cb_frames, cb_rc,
            IF rc = "none" THEN "none" ELSE "terminated")

\* Variant that asks the callback for all the frames of the request.
C17_mutant_handle_playback_request(t, sid, num_frames, cb_rc, write_ok) ==
  IF t.direction # "OUTPUT" THEN aud_after_handler(t, <<>>, -1, 0, "none")
  ELSE IF Min2(cb_rc, num_frames) < 0
  THEN aud_after_handler(t, <<StreamMsg(sid, "STREAM_EOF")>>, num_frames,
                         Min2(cb_rc, num_frames), send_reply(write_ok))
  ELSE aud_after_handler(t, <<>>, num_frames, Min2(cb_rc, num_frames),
                         send_reply(write_ok))

\* Variant that answers the server without telling the control task.
C12_mutant_handle_playback_request(t, sid, num_frames, cb_rc, write_ok) ==
  IF t.direction # "OUTPUT" THEN aud_after_handler(t, <<>>, -1, 0, "none")
  ELSE aud_after_handler(t, <<>>, Min2(num_frames, CbThreshold),
                         Min2(cb_rc, Min2(num_frames, CbThreshold)),
                         send_reply(write_ok))

\* handle_playback_request: cb_rc is what the user callback answers, cut to
\* the frames it was asked for.
handle_playback_request(t, sid, num_frames, cb_rc, write_ok) ==
  IF t.direction # "OUTPUT" THEN aud_after_handler(t, <<>>, -1, 0, "none")
  ELSE IF Min2(cb_rc, Min2(num_frames, CbThreshold)) < 0
  THEN aud_after_handler(t, <<StreamMsg(sid, "STREAM_EOF")>>,
                         Min2(num_frames, CbThreshold),
                         Min2(cb_rc, Min2(num_frames, CbThreshold)),
                         send_reply(write_ok))
  ELSE aud_after_handler(t, <<>>, Min2(num_frames, CbThreshold),
                         Min2(cb_rc, Min2(num_frames, CbThreshold)),
                         send_reply(write_ok))

\* Variant that does not look at the frames the shm holds.
C31_mutant_config_capture_buf(num_frames, readable) ==
  Min2(num_frames, CbThreshold)

\* config_capture_buf: the frames to hand to the callback, 0 when the shm
\* holds fewer readable frames (cras_shm_get_curr_read_frames) than that.
config_capture_buf(num_frames, readable) ==
  IF readable < Min2(num_frames, CbThreshold) THEN 0
  ELSE Min2(num_frames, CbThreshold)

\* handle_capture_data_ready once config_capture_buf returned frames.
capture_data_ready_after(t, sid, frames, cb_rc, write_ok) ==
  IF frames = 0 THEN aud_after_handler(t, <<>>, -1, 0, "none")
  ELSE IF Min2(cb_rc, frames) < 0
  THEN aud_after_handler(t, <<StreamMsg(sid, "STREAM_EOF")>>, frames,
                         Min2(cb_rc, frames), send_reply(write_ok))
  ELSE IF Min2(cb_rc, frames) = 0
  THEN aud_after_handler(t, <<>>, frames, 0, "none")
  ELSE aud_after_handler(t, <<>>, frames, Min2(cb_rc, frames),
                         send_reply(write_ok))

\* handle_capture_data_ready: readable is the number of frames the shm
\* holds for the reader.
handle_capture_data_ready(t, sid, num_frames, readable, cb_rc, write_ok) ==
  IF t.direction # "INPUT" THEN aud_after_handler(t, <<>>, -1, 0, "none")
  ELSE capture_data_ready_after(t, sid,
                                config_capture_buf(num_frames, readable),
                                cb_rc, write_ok)

\* read_with_wake_fd for a message waiting on aud_fd.
read_with_wake_fd(m) == IF m.full THEN "OK" ELSE "EIO"

\* One iteration of the loop of audio_thread with the message m on aud_fd.
audio_thread(t, sid, m, readable, cb_rc, write_ok) ==
  IF read_with_wake_fd(m) # "OK"
  THEN AudResult([t EXCEPT !.alive = FALSE], <<>>, -1, 0, "EIO")
  ELSE IF m.id = "DATA_READY"
  THEN handle_capture_data_ready(t, sid, m.frames, readable, cb_rc, write_ok)
  ELSE IF m.id = "REQUEST_DATA"
  THEN handle_playback_request(t, sid, m.frames, cb_rc, write_ok)
  ELSE AudResult(t, <<>>, -1, 0, "none")

\* What stream_connected returns: msg_err is the err field of the message,
\* num_fds the number of descriptors that came with it, shm_ok whether the
\* shared memory of the stream could be set up.
stream_connected_rc(msg_err, num_fds, shm_ok) ==
  IF msg_err # 0 \/ num_fds # 2 THEN msg_err
  ELSE IF ~shm_ok THEN 0 - EINVAL
  ELSE 0

\* stream_connected reaches its end without the jump to err_ret.
stream_connected_ok(msg_err, num_fds, shm_ok) ==
  msg_err = 0 /\ num_fds = 2 /\ shm_ok

\* stream_connected for a stream of the list.
stream_connected(t, ok) ==
  IF ok THEN [t EXCEPT !.state = "RUNNING"]
  ELSE [t EXCEPT !.state = "STOP", !.alive = FALSE]

\* handle_stream_message for readable data on the stream pipe.
handle_stream_message(c, pipe) == client_thread_rm_stream(c, Head(pipe).stream_id)

(***************************************************************************)
(* The control loop: poll() and one callback per iteration, the file watch *)
(* first, then the server fd, then the command pipe.                       *)
(***************************************************************************)
\* revents poll() can report on the server fd.
ServerFdReady ==
  CASE server_fd = "timer" -> {{"IN"}}
    [] server_fd = "sock" /\ server_fd_state = "WAIT_FOR_WRITABLE" ->
         (IF conn = "writable" THEN {{"OUT"}}
          ELSE IF conn = "closed" THEN {{"OUT", "HUP"}} ELSE {})
    [] server_fd = "sock" ->
         (IF conn = "closed"
          THEN {IF inbox = <<>> THEN {"HUP"} ELSE {"IN", "HUP"}}
          ELSE IF inbox # <<>> THEN {{"IN"}} ELSE {})
    [] OTHER -> {}

ServerMsgReady == server_fd = "sock" /\ ServerFdReady # {}

SockFileWaitDispatch ==
  /\ thread_running
  /\ fw_events # <<>>
  /\ \E c \in {sock_file_wait_callback(Client, Head(fw_events), e) :
                  e \in ConnectOutcomes} : SetClient(c)
  /\ fw_events' = Tail(fw_events)
  /\ UNCHANGED <<file, listening>>
  /\ UNCHANGED non_client_vars
  /\ AudFollow

ServerFdDispatch ==
  /\ thread_running
  /\ fw_events = <<>>
  /\ \E revents \in ServerFdReady :
       \E c \in {server_fd_dispatch(Client, revents, e).c :
                  e \in DispatchOutcomes} : SetClient(c)
  /\ UNCHANGED <<file, listening, fw_events>>
  /\ UNCHANGED non_client_vars
  /\ AudFollow

Cmd(msg_id, stream_id) == [msg_id |-> msg_id, stream_id |-> stream_id]

\* One command read from the command pipe and handled.
HandleCommand(msg, outcomes) ==
  /\ thread_running
  /\ fw_events = <<>>
  /\ ~ServerMsgReady
  /\ \E c \in {handle_command_message(Client, msg, e) : e \in outcomes} :
       SetClient(c)
  /\ UNCHANGED <<file, listening, fw_events>>
  /\ UNCHANGED non_client_vars
  /\ AudFollow

CmdServerConnectAsync ==
  HandleCommand(Cmd("CLIENT_SERVER_CONNECT_ASYNC", 0), ConnectOutcomes)

CmdAddStream ==
  /\ Len(streams) < MaxStreams
  /\ HandleCommand(Cmd("CLIENT_ADD_STREAM", 0), AddStreamOutcomes)

CmdRemoveStream ==
  \E s \in Range(streams) :
    HandleCommand(Cmd("CLIENT_REMOVE_STREAM", s.id), {NoFault})

\* CLIENT_ADD_STREAM for a stream of either direction, by an application that
\* keeps one stream at a time; the new stream has an audio task.
AudioAddStream ==
  /\ thread_running
  /\ streams = <<>>
  /\ fw_events = <<>>
  /\ ~ServerMsgReady
  /\ \E dir \in Directions :
       \E r \in {client_thread_add_stream(Client, e) : e \in AddStreamOutcomes} :
         /\ SetClient(r.c)
         /\ aud_threads' =
              [sid \in StreamIds(r.c.streams) |->
                 IF sid \in DOMAIN aud_threads THEN aud_threads[sid]
                 ELSE NewAudThread(dir)]
  /\ aud_last' = NoAudLast
  /\ UNCHANGED <<file, listening, fw_events, stream_pipe>>
  /\ UNCHANGED non_client_vars

\* The control task reads a STREAM_CONNECTED message for one of its streams.
StreamConnected ==
  /\ thread_running
  /\ fw_events = <<>>
  /\ server_fd_state = "CONNECTED" /\ conn = "up" /\ inbox = <<>>
  /\ \E sid \in DOMAIN aud_threads, msg_err \in {0, 0 - EINVAL},
        num_fds \in {0, 2}, shm_ok \in BOOLEAN :
       /\ aud_threads[sid].state = "WARMUP"
       /\ aud_threads' =
            [aud_threads EXCEPT ![sid] =
               stream_connected(
                 @, stream_connected_ok(msg_err, num_fds, shm_ok))]
       /\ trace' =
            <<Ev("STREAM_CONNECTED", IF msg_err = 0 THEN "" ELSE "EINVAL",
                 "", sid),
              Ev("num_fds", "", "", num_fds)>>
              \o (IF stream_connected_rc(msg_err, num_fds, shm_ok) < 0
                  THEN <<Ev("err_cb", "EINVAL", "", sid)>>
                  ELSE <<>>)
  /\ aud_last' = NoAudLast
  /\ UNCHANGED reported_status
  /\ UNCHANGED <<id, server_fd, server_fd_state, server_event_fd,
                 sock_file_exists, next_stream_id, streams, server_state,
                 server_connection_cb, observer_ops, file, listening, conn,
                 inbox, fw_events, stream_pipe>>
  /\ UNCHANGED non_client_vars

\* What the server side can put on aud_fd: the two requests with a frame
\* count below, at and above cb_threshold, a message with another id, and
\* a message cut short.
AudioMessages ==
  {[id |-> k, frames |-> n, full |-> TRUE] :
     k \in {"REQUEST_DATA", "DATA_READY"},
     n \in (CbThreshold - 1)..(CbThreshold + 1)}
  \cup {[id |-> "OTHER", frames |-> 1, full |-> TRUE],
        [id |-> "REQUEST_DATA", frames |-> 1, full |-> FALSE]}

\* The readable frames the audio task finds in the shm when it handles m:
\* fewer than, as many as and more than cb_threshold for a DATA_READY.
ReadableFrames(m) ==
  IF m.id = "DATA_READY" THEN (CbThreshold - 1)..(CbThreshold + 1) ELSE {0}

\* The server writes a message to the aud_fd of a running stream and the
\* stream's audio task reads and handles it.  A task that finds a record
\* waiting in the stream pipe is taken to block until the record is read.
AudioThreadStep ==
  /\ stream_pipe = <<>>
  /\ \E sid \in DOMAIN aud_threads, m \in AudioMessages :
       /\ aud_threads[sid].alive
       /\ aud_threads[sid].state = "RUNNING"
       /\ \E readable \in ReadableFrames(m), cb_rc \in -1..CbThreshold,
             write_ok \in BOOLEAN :
            \E r \in {audio_thread(aud_threads[sid], sid, m, readable, cb_rc,
                                   write_ok)} :
              /\ aud_threads' = [aud_threads EXCEPT ![sid] = r.t]
              /\ stream_pipe' = stream_pipe \o r.pipe
              /\ aud_last' = [sid |-> sid, msg |-> m, readable |-> readable,
                              direction |-> aud_threads[sid].direction,
                              cb_frames |-> r.cb_frames, cb_rc |-> r.cb_rc,
                              exit |-> r.exit]
  /\ trace' = <<>>
  /\ UNCHANGED reported_status
  /\ UNCHANGED <<id, server_fd, server_fd_state, server_event_fd,
                 sock_file_exists, next_stream_id, streams, server_state,
                 server_connection_cb, observer_ops, file, listening, conn,
                 inbox, fw_events>>
  /\ UNCHANGED non_client_vars

\* The control task handles the stream pipe, the last descriptor of its
\* poll set.
HandleStreamMessage ==
  /\ thread_running
  /\ fw_events = <<>>
  /\ ~ServerMsgReady
  /\ stream_pipe # <<>>
  /\ SetClient(handle_stream_message(Client, stream_pipe))
  /\ stream_pipe' = Tail(stream_pipe)
  /\ aud_threads' =
       [sid \in DOMAIN aud_threads \cap StreamIds(streams') |->
          aud_threads[sid]]
  /\ aud_last' = NoAudLast
  /\ UNCHANGED <<file, listening, fw_events>>
  /\ UNCHANGED non_client_vars

(***************************************************************************)
(* The blocking connect calls, cras_client_connect and                     *)
(* cras_client_connect_timeout, on the thread of the application.          *)
(***************************************************************************)
\* No blocking call is under way.  pc is the caller's position in
\* connect_to_server: "wait" in check_server_connected_wait after the
\* control task took the connect command, "fall" past that branch, "loop" in
\* the poll loop of connect_to_server itself.  thread and async_rc keep what
\* the call found, caller_ran whether the caller's thread has run
\* server_fd_dispatch or the file-watch dispatch during the call.
NoCall ==
  [pc |-> "idle", thread |-> FALSE, async_rc |-> "none", timed |-> FALSE,
   caller_ran |-> FALSE]

\* Variant that never hands the connect to the control task.
C18_mutant_connect_to_server_uses_thread(running, use_command_thread) == FALSE

\* The first branch of connect_to_server.
connect_to_server_uses_thread(running, use_command_thread) ==
  running /\ use_command_thread

\* What the caller does after cras_client_connect_async answered rc.
after_connect_async(rc, running, timed) ==
  [pc |-> IF rc = "OK" THEN "wait" ELSE "fall", thread |-> running,
   async_rc |-> rc, timed |-> timed, caller_ran |-> FALSE]

\* cras_client_run_thread
RunThread ==
  /\ ~thread_running
  /\ blocking.pc = "idle"
  /\ thread_running' = TRUE
  /\ SetClient(Client)
  /\ UNCHANGED <<file, listening, fw_events, blocking>>
  /\ UNCHANGED <<server_vars, floop_vars, wait_vars, app_vars>>
  /\ AudFollow

\* The call enters connect_to_server.  When the control task runs, the
\* CLIENT_SERVER_CONNECT_ASYNC command is handled by that task, which
\* replies with what server_connect returned.
ConnectCall ==
  /\ blocking.pc = "idle"
  /\ \E timed \in BOOLEAN :
       IF connect_to_server_uses_thread(thread_running, TRUE)
       THEN /\ fw_events = <<>>
            /\ ~ServerMsgReady
            /\ \E r \in {server_connect_result(Client, e) :
                           e \in ConnectOutcomes} :
                 /\ SetClient(r.c)
                 /\ blocking' = after_connect_async(r.rc, thread_running, timed)
       ELSE /\ SetClient(Client)
            /\ blocking' = [NoCall EXCEPT !.pc = "fall", !.timed = timed,
                                          !.thread = thread_running]
  /\ UNCHANGED <<file, listening, fw_events, thread_running>>
  /\ UNCHANGED <<server_vars, floop_vars, wait_vars, app_vars>>
  /\ AudFollow

\* check_server_connected_wait: the poll of server_event_fd ends when the
\* eventfd is signalled or the timeout of the call runs out.
ConnectWaitReturn ==
  /\ blocking.pc = "wait"
  /\ server_event_fd # 0 \/ blocking.timed
  /\ blocking' = [blocking EXCEPT !.pc = "idle"]
  /\ SetClient(Client)
  /\ UNCHANGED <<file, listening, fw_events, thread_running>>
  /\ UNCHANGED <<server_vars, floop_vars, wait_vars, app_vars>>
  /\ AudFollow

\* connect_to_server past its first branch: return at once when connected,
\* otherwise server_connect on the thread of the caller.
ConnectFallThrough ==
  /\ blocking.pc = "fall"
  /\ IF server_event_fd # 0
     THEN /\ SetClient(Client)
          /\ blocking' = [blocking EXCEPT !.pc = "idle"]
     ELSE \E r \in {server_connect_result(Client, e) :
                      e \in ConnectOutcomes} :
            /\ SetClient(r.c)
            /\ blocking' =
                 [blocking EXCEPT
                    !.pc = IF r.rc = "OK" THEN "loop" ELSE "idle",
                    !.caller_ran = @ \/ server_fd_state = "DISCONNECTED"]
  /\ UNCHANGED <<file, listening, fw_events, thread_running>>
  /\ UNCHANGED <<server_vars, floop_vars, wait_vars, app_vars>>
  /\ AudFollow

\* Where the poll loop of connect_to_server stands after server_fd_dispatch.
after_caller_dispatch(r) ==
  [blocking EXCEPT
     !.caller_ran = TRUE,
     !.pc = IF r.rc # "OK" \/ r.c.server_fd_state = "CONNECTED"
            THEN "idle" ELSE "loop"]

\* One pass of the poll loop of connect_to_server: the poll times out, or
\* the file watch or the server fd is dispatched on the caller's thread.
ConnectLoop ==
  /\ blocking.pc = "loop"
  /\ \/ /\ blocking.timed
        /\ fw_events = <<>>
        /\ ServerFdReady = {}
        /\ SetClient(Client)
        /\ blocking' = [blocking EXCEPT !.pc = "idle"]
        /\ UNCHANGED fw_events
     \/ /\ fw_events # <<>>
        /\ \E c \in {sock_file_wait_callback(Client, Head(fw_events), e) :
                       e \in ConnectOutcomes} : SetClient(c)
        /\ fw_events' = Tail(fw_events)
        /\ blocking' = [blocking EXCEPT !.caller_ran = TRUE]
     \/ /\ fw_events = <<>>
        /\ \E revents \in ServerFdReady :
             \E r \in {server_fd_dispatch(Client, revents, e) :
                         e \in DispatchOutcomes} :
               /\ SetClient(r.c)
               /\ blocking' = after_caller_dispatch(r)
        /\ UNCHANGED fw_events
  /\ UNCHANGED <<file, listening, thread_running>>
  /\ UNCHANGED <<server_vars, floop_vars, wait_vars, app_vars>>
  /\ AudFollow

\* cras_client_set_connection_status_cb
SetConnectionStatusCb ==
  /\ server_connection_cb' = ~server_connection_cb
  /\ trace' = <<>>
  /\ reported_status' = "none"
  /\ UNCHANGED <<id, server_fd, server_fd_state, server_event_fd,
                 sock_file_exists, next_stream_id, streams, server_state,
                 observer_ops, file, listening, conn, inbox, fw_events>>
  /\ UNCHANGED non_client_vars
  /\ AudFollow

\* cras_client_set_*_changed_callback with a non-NULL or NULL callback
SetObserverCallback ==
  /\ \E k \in 1..Len(NotifyTypes), on \in BOOLEAN :
       /\ on # (NotifyTypes[k] \in observer_ops)
       /\ observer_ops' = IF on THEN observer_ops \cup {NotifyTypes[k]}
                          ELSE observer_ops \ {NotifyTypes[k]}
       /\ trace' = IF write_message_to_server(Client, NoFault, k)
                      = "OK"
                   THEN <<Ev("REGISTER_NOTIFICATION", NotifyTypes[k], "",
                             IF on THEN 1 ELSE 0)>>
                   ELSE <<>>
  /\ UNCHANGED reported_status
  /\ UNCHANGED <<id, server_fd, server_fd_state, server_event_fd,
                 sock_file_exists, next_stream_id, streams, server_state,
                 server_connection_cb, file, listening, conn, inbox,
                 fw_events>>
  /\ UNCHANGED non_client_vars
  /\ AudFollow

(***************************************************************************)
(* The environment of the client: the socket file and the server.          *)
(***************************************************************************)
\* Messages the server side can put on the socket: a well-formed
\* CLIENT_CONNECTED (with a valid or an invalid client id), malformed ones
\* (wrong fd count, unmappable shm, wrong length) and a notification.
Msg(kind, client_id, num_fds, shm_ok, len_ok) ==
  [kind |-> kind, client_id |-> client_id, num_fds |-> num_fds,
   shm_ok |-> shm_ok, len_ok |-> len_ok]

ServerMessages ==
  {Msg("CLIENT_CONNECTED", 1, 1, TRUE, TRUE),
   Msg("CLIENT_CONNECTED", -1, 1, TRUE, TRUE),
   Msg("CLIENT_CONNECTED", 1, 0, TRUE, TRUE),
   Msg("CLIENT_CONNECTED", 1, 1, FALSE, TRUE),
   Msg("CLIENT_CONNECTED", 1, 1, TRUE, FALSE),
   Msg("NODES_CHANGED", 0, 0, TRUE, TRUE)}

EnvUnchangedClient ==
  /\ UNCHANGED reported_status
  /\ UNCHANGED <<id, server_fd, server_fd_state, server_event_fd,
                 sock_file_exists, next_stream_id, streams, server_state,
                 server_connection_cb, observer_ops>>
  /\ UNCHANGED non_client_vars
  /\ AudFollow

\* The socket file appears: created by a starting server, or merely touched.
FileCreated ==
  /\ ~file
  /\ fw_events = <<>>
  /\ file' = TRUE
  /\ listening' \in BOOLEAN
  /\ fw_events' = Append(fw_events, "CREATED")
  /\ trace' = <<>>
  /\ EnvUnchangedClient /\ UNCHANGED <<conn, inbox>>

FileDeleted ==
  /\ file
  /\ fw_events = <<>>
  /\ file' = FALSE
  /\ listening' = FALSE
  /\ fw_events' = Append(fw_events, "DELETED")
  /\ trace' = <<>>
  /\ EnvUnchangedClient /\ UNCHANGED <<conn, inbox>>

\* The server starts or stops accepting on the existing socket file.
ServerListen ==
  /\ file
  /\ listening' = ~listening
  /\ trace' = <<>>
  /\ EnvUnchangedClient /\ UNCHANGED <<file, conn, inbox, fw_events>>

ConnectCompletes ==
  /\ conn = "inprogress"
  /\ conn' = "writable"
  /\ trace' = <<>>
  /\ EnvUnchangedClient /\ UNCHANGED <<file, listening, inbox, fw_events>>

ServerSend ==
  /\ conn = "up"
  /\ inbox = <<>>
  /\ \E m \in ServerMessages : inbox' = Append(inbox, m)
  /\ trace' = <<>>
  /\ EnvUnchangedClient /\ UNCHANGED <<file, listening, conn, fw_events>>

ServerClose ==
  /\ conn \in {"up", "inprogress", "writable"}
  /\ conn' = "closed"
  /\ trace' = <<>>
  /\ EnvUnchangedClient /\ UNCHANGED <<file, listening, inbox, fw_events>>

(***************************************************************************)
(*                PART II - the server's device list                       *)
(***************************************************************************)
\* The devices: the two fallbacks and the empty hotword device made by
\* cras_iodev_list_init, and four devices added by
\* cras_iodev_list_add_output / _add_input.
RealDevs == {"SPEAKER", "USB_OUT", "MIC", "HOTWORD"}
Devs == {"SILENT_PLAYBACK", "SILENT_RECORD", "EMPTY_HOTWORD"} \cup RealDevs
direction(d) ==
  IF d \in {"SILENT_RECORD", "MIC", "HOTWORD", "EMPTY_HOTWORD"} THEN "INPUT"
  ELSE "OUTPUT"
fallback_devs(dir) ==
  IF dir = "OUTPUT" THEN "SILENT_PLAYBACK" ELSE "SILENT_RECORD"
\* dev->info.idx < MAX_SPECIAL_DEVICE_IDX
is_special_dev(d) == d \notin RealDevs
node_type(d) ==
  IF d = "SPEAKER" THEN "INTERNAL_SPEAKER"
  ELSE IF d \in {"HOTWORD", "EMPTY_HOTWORD"} THEN "HOTWORD" ELSE "USB"
\* cras_iodev_is_dsp_aec_use_case: the internal speaker is the echo
\* reference the DSP can use.
cras_iodev_is_dsp_aec_use_case(d) == d = "SPEAKER"
\* Channel counts of the streams and devices of the model.
LowChannels == 2
HighChannels == 6
\* dev->info.max_supported_channels
max_supported_channels(d) == IF d = "SPEAKER" THEN LowChannels ELSE HighChannels
\* cras_iodev_set_format: the stream's channel count when the device
\* supports it, the default count otherwise.
supported_channels(d, st) ==
  IF st.num_channels <= max_supported_channels(d) THEN st.num_channels
  ELSE LowChannels

\* The device list as one record, and its write-back.
Server ==
  [enabled |-> enabled_devs, open |-> open_devs, idle |-> idle_devs,
   streams |-> stream_list, attached |-> attached, retries |-> init_retries,
   suspended |-> stream_list_suspended,
   alive |-> non_dsp_aec_echo_ref_dev_alive,
   disallowed |-> aec_on_dsp_is_disallowed, sys |-> sys_state,
   broken |-> broken, log |-> <<>>, fmt |-> dev_format,
   mlog |-> [on |-> main_log.on, ev |-> <<>>],
   hw_suspended |-> hotword_suspended, hw_auto_resume |-> hotword_auto_resume,
   hw_pause |-> hotword_pause_at_suspend, node |-> active_node,
   tm |-> idle_timers]

SetServer(s) ==
  /\ enabled_devs' = s.enabled
  /\ open_devs' = s.open
  /\ idle_devs' = s.idle
  /\ stream_list' = s.streams
  /\ attached' = s.attached
  /\ init_retries' = s.retries
  /\ stream_list_suspended' = s.suspended
  /\ non_dsp_aec_echo_ref_dev_alive' = s.alive
  /\ aec_on_dsp_is_disallowed' = s.disallowed
  /\ sys_state' = s.sys
  /\ broken' = s.broken
  /\ slog' = s.log
  /\ dev_format' = s.fmt
  /\ main_log' = s.mlog
  /\ hotword_suspended' = s.hw_suspended
  /\ hotword_auto_resume' = s.hw_auto_resume
  /\ hotword_pause_at_suspend' = s.hw_pause
  /\ active_node' = s.node
  /\ idle_timers' = s.tm

SLog(s, k, a, f, b) == [s EXCEPT !.log = Append(@, Ev(k, a, f, b))]
\* MAINLOG(main_log, ...): kept only by the specifications that read it.
MLog(s, k, a, f, b) ==
  IF s.mlog.on THEN [s EXCEPT !.mlog.ev = Append(@, Ev(k, a, f, b))] ELSE s
SR(s, rc) == [s |-> s, rc |-> rc]

cras_iodev_list_dev_is_enabled(s, d) == d \in Range(s.enabled[direction(d)])
stream_list_has_pinned_stream(s, d) ==
  \E i \in DOMAIN s.streams :
    s.streams[i].is_pinned /\ s.streams[i].pinned_dev_idx = d

cras_iodev_list_update_device_list(s) ==
  SLog(s, "update_device_list", "", "", 0)
cras_iodev_list_notify_nodes_changed(s) == SLog(s, "NODES_CHANGED", "", "", 0)
cras_iodev_list_notify_active_node_changed(s, dir) ==
  SLog(s, "ACTIVE_NODE_CHANGED", dir, "", 0)

\* Variant that ignores the NC standalone mode.
C7_mutant_get_nc_blocked_state(s) == s.alive \/ s.disallowed

get_nc_blocked_state(s) ==
  IF s.sys.standalone_mode THEN s.alive ELSE s.alive \/ s.disallowed

\* Variant that notifies on every update, changed or not.
C8_mutant_nc_blocked_state_edge(prev_state, s) ==
  IF ~s.sys.dsp_nc_supported \/ s.sys.bypass_block_nc THEN s
  ELSE cras_iodev_list_notify_nodes_changed(
         cras_iodev_list_update_device_list(s))

\* update_nc_blocked_state after the two flags were assigned.
nc_blocked_state_edge(prev_state, s) ==
  IF prev_state # get_nc_blocked_state(s)
  THEN IF ~s.sys.dsp_nc_supported \/ s.sys.bypass_block_nc THEN s
       ELSE cras_iodev_list_notify_nodes_changed(
              cras_iodev_list_update_device_list(s))
  ELSE s

\* The trace keeps, for each update, the NC-blocked state before it (a) and
\* after it (f).
update_nc_blocked_state(s, new_alive, new_disallowed) ==
  nc_blocked_state_edge(
    get_nc_blocked_state(s),
    SLog([s EXCEPT !.alive = new_alive, !.disallowed = new_disallowed],
         "nc_blocked_state", get_nc_blocked_state(s),
         get_nc_blocked_state(
           [s EXCEPT !.alive = new_alive, !.disallowed = new_disallowed]),
         0))

set_non_dsp_aec_echo_ref_dev_alive(s, state) ==
  update_nc_blocked_state(s, state, s.disallowed)

set_aec_on_dsp_is_disallowed(s, state) ==
  update_nc_blocked_state(s, s.alive, state)

cras_iodev_list_set_aec_on_dsp_is_disallowed(s, is_disallowed) ==
  IF s.disallowed = is_disallowed THEN s
  ELSE set_aec_on_dsp_is_disallowed(s, is_disallowed)

is_dsp_aec_use_case(s, d) ==
  IF s.sys.standalone_mode THEN node_type(d) # "INTERNAL_SPEAKER"
  ELSE cras_iodev_is_dsp_aec_use_case(d)

possibly_set_non_dsp_aec_echo_ref_dev_alive(s, d) ==
  IF \/ s.alive
     \/ is_special_dev(d)
     \/ direction(d) = "INPUT"
     \/ (~cras_iodev_list_dev_is_enabled(s, d) /\ d \notin s.open)
  THEN s
  ELSE IF ~is_dsp_aec_use_case(s, d)
  THEN set_non_dsp_aec_echo_ref_dev_alive(s, TRUE)
  ELSE s

possibly_clear_non_dsp_aec_echo_ref_dev_alive(s) ==
  IF ~s.alive THEN s
  ELSE IF \E d \in Range(s.enabled["OUTPUT"]) :
            ~is_special_dev(d) /\ ~is_dsp_aec_use_case(s, d)
  THEN s
  ELSE IF \E i \in DOMAIN s.streams :
            /\ s.streams[i].direction # "INPUT"
            /\ s.streams[i].is_pinned
            /\ ~is_special_dev(s.streams[i].pinned_dev_idx)
            /\ ~is_dsp_aec_use_case(s, s.streams[i].pinned_dev_idx)
  THEN s
  ELSE set_non_dsp_aec_echo_ref_dev_alive(s, FALSE)

\* audio_thread_rm_open_dev: the device leaves the audio thread together
\* with the streams attached to it.
remove_all_streams_from_dev(s, d) ==
  [s EXCEPT !.attached = {p \in @ : p[2] # d}]

\* audio_thread_disconnect_stream; d = "ALL" stands for a NULL device.
audio_thread_disconnect_stream(s, sid, d) ==
  [s EXCEPT !.attached = {p \in @ : ~(p[1] = sid /\ (d = "ALL" \/ p[2] = d))}]

\* audio_thread_add_stream
add_stream_to_open_devs(s, st, iodevs) ==
  MLog([s EXCEPT !.attached = @ \cup {<<st.id, d>> : d \in iodevs}],
       "STREAM_ATTACH", iodevs, "", st.id)

close_dev(s, d) ==
  IF d \notin s.open THEN s
  ELSE possibly_clear_non_dsp_aec_echo_ref_dev_alive(
         [remove_all_streams_from_dev(MLog(s, "DEV_CLOSE", d, "", 0), d)
            EXCEPT !.idle = @ \ {d}, !.open = @ \ {d}, !.fmt[d] = 0])

\* DL_FOREACH over init_retries whose body frees the record it stands on;
\* the walk goes on only if the freed record still shows its old link.
RECURSIVE cancel_retries_from(_, _, _, _)
cancel_retries_from(list, d, i, stale_next) ==
  IF i > Len(list) THEN list
  ELSE IF list[i] # d THEN cancel_retries_from(list, d, i + 1, stale_next)
  ELSE IF stale_next
  THEN cancel_retries_from(SeqRemoveAt(list, i), d, i, stale_next)
  ELSE SeqRemoveAt(list, i)

cancel_pending_init_retries(s, d, e) ==
  [s EXCEPT !.retries = cancel_retries_from(@, d, 1, e.stale_next)]

\* cras_iodev_open and audio_thread_add_open_dev, and what init_device does
\* with their results.
open_device(s, d, st) ==
  IF s.broken.dev = d /\ s.broken.kind = "open" THEN SR(s, "ERR")
  ELSE IF s.broken.dev = d
  THEN SR(possibly_set_non_dsp_aec_echo_ref_dev_alive(s, d), "ERR")
  ELSE SR(possibly_set_non_dsp_aec_echo_ref_dev_alive(
            MLog([s EXCEPT !.open = @ \cup {d},
                           !.fmt[d] = supported_channels(d, st)],
                 "DEV_OPEN", d, "", supported_channels(d, st)), d), "OK")

\* Variant that opens the device with its old retry records left pending.
C40_mutant_init_device(s, d, st, e) ==
  IF d \in s.open THEN SR([s EXCEPT !.idle = @ \ {d}], "OK")
  ELSE open_device([s EXCEPT !.idle = @ \ {d}], d, st)

init_device(s, d, st, e) ==
  IF d \in s.open THEN SR([s EXCEPT !.idle = @ \ {d}], "OK")
  ELSE open_device(
         cancel_pending_init_retries([s EXCEPT !.idle = @ \ {d}], d, e),
         d, st)

can_attach(st, d, dev_enabled) ==
  /\ st.direction = direction(d)
  /\ IF ~st.is_pinned THEN dev_enabled
     ELSE st.pinned_dev_idx = d \/ d \in {"SILENT_PLAYBACK", "SILENT_RECORD"}

RECURSIVE attach_streams_from(_, _, _, _, _)
RECURSIVE attach_after_init(_, _, _, _, _)

\* The loop of init_and_attach_streams from the i-th stream on.
attach_streams_from(s, d, dev_enabled, i, e) ==
  IF i > Len(s.streams) THEN SR(s, "OK")
  ELSE IF ~can_attach(s.streams[i], d, dev_enabled)
  THEN attach_streams_from(s, d, dev_enabled, i + 1, e)
  ELSE attach_after_init(init_device(s, d, s.streams[i], e), d, dev_enabled,
                         i, e)

attach_after_init(r, d, dev_enabled, i, e) ==
  IF r.rc # "OK" THEN r
  ELSE attach_streams_from(add_stream_to_open_devs(r.s, r.s.streams[i], {d}),
                           d, dev_enabled, i + 1, e)

init_and_attach_streams(s, d, e) ==
  IF s.suspended THEN SR(s, "OK")
  ELSE attach_streams_from(s, d, cras_iodev_list_dev_is_enabled(s, d), 1, e)

schedule_init_device_retry(s, d) == [s EXCEPT !.retries = Append(@, d)]

\* Variant that gives up after a failed init.
C26_mutant_enable_device_after(r, d) ==
  IF r.rc # "OK" THEN SR(r.s, "ERR")
  ELSE SR(possibly_set_non_dsp_aec_echo_ref_dev_alive(r.s, d), "OK")

\* enable_device once init_and_attach_streams returned r.
enable_device_after(r, d) ==
  IF r.rc # "OK" THEN SR(schedule_init_device_retry(r.s, d), "ERR")
  ELSE SR(possibly_set_non_dsp_aec_echo_ref_dev_alive(r.s, d), "OK")

enable_device(s, d, e) ==
  IF cras_iodev_list_dev_is_enabled(s, d) THEN SR(s, "EEXIST")
  ELSE enable_device_after(
         init_and_attach_streams(
           MLog([s EXCEPT !.enabled[direction(d)] = Append(@, d)],
                "DEV_ENABLE", d, "", 0), d, e), d)

\* The normal streams of the device's direction leave the device.
disconnect_normal_streams(s, d) ==
  [s EXCEPT !.attached =
     {p \in @ : ~(p[2] = d /\ \E i \in DOMAIN s.streams :
                    /\ s.streams[i].id = p[1]
                    /\ s.streams[i].direction = direction(d)
                    /\ ~s.streams[i].is_pinned)}]

\* Variant whose soft disable closes the device whatever is pinned to it.
C30_mutant_disable_device_after(s, d, force, e) ==
  IF force
  THEN possibly_clear_non_dsp_aec_echo_ref_dev_alive(
         close_dev(cancel_pending_init_retries(s, d, e), d))
  ELSE possibly_clear_non_dsp_aec_echo_ref_dev_alive(close_dev(s, d))

\* disable_device once the device is off the enabled list.
disable_device_after(s, d, force, e) ==
  IF force
  THEN possibly_clear_non_dsp_aec_echo_ref_dev_alive(
         close_dev(cancel_pending_init_retries(s, d, e), d))
  ELSE IF stream_list_has_pinned_stream(s, d)
  THEN disconnect_normal_streams(s, d)
  ELSE possibly_clear_non_dsp_aec_echo_ref_dev_alive(close_dev(s, d))

disable_device(s, d, force, e) ==
  disable_device_after(
    MLog([s EXCEPT !.enabled[direction(d)] = SelectSeq(@, LAMBDA x : x # d)],
         "DEV_DISABLE", d, "", 0),
    d, force, e)

possibly_disable_fallback(s, dir, e) ==
  IF cras_iodev_list_dev_is_enabled(s, fallback_devs(dir))
  THEN disable_device(s, fallback_devs(dir), FALSE, e)
  ELSE s

possibly_enable_fallback(s, dir, e) ==
  IF cras_iodev_list_dev_is_enabled(s, fallback_devs(dir)) THEN s
  ELSE enable_device(s, fallback_devs(dir), e).s

\* init_pinned_device and the rest of pinned_stream_added, r being what
\* init_device returned.
pinned_stream_after_init(r, st) ==
  IF r.rc # "OK" THEN schedule_init_device_retry(r.s, st.pinned_dev_idx)
  ELSE add_stream_to_open_devs(r.s, st, {st.pinned_dev_idx})

\* The device a pinned stream goes to, "NULL" when there is none.
find_pinned_device(s, st) ==
  IF ~st.is_pinned THEN "NULL"
  ELSE IF ~st.hotword THEN st.pinned_dev_idx
  ELSE IF node_type(st.pinned_dev_idx) # "HOTWORD" THEN "NULL"
  ELSE IF s.hw_suspended THEN "EMPTY_HOTWORD"
  ELSE st.pinned_dev_idx

init_pinned_device(s, d, st, e) == init_device(s, d, st, e)

pinned_stream_added(s, st, e) ==
  IF find_pinned_device(s, st) = "NULL" THEN s
  ELSE pinned_stream_after_init(
         init_pinned_device(s, find_pinned_device(s, st), st, e),
         [st EXCEPT !.pinned_dev_idx = find_pinned_device(s, st)])

\* "Catch the stream with fallback if it is already enabled".
catch_with_fallback(s, st, e) ==
  IF cras_iodev_list_dev_is_enabled(s, fallback_devs(st.direction))
  THEN add_stream_to_open_devs(
         init_device(s, fallback_devs(st.direction), st, e).s, st,
         {fallback_devs(st.direction)})
  ELSE s

\* restart_dev once init_and_attach_streams returned r.
restart_dev_after(r, d) ==
  IF r.rc # "OK" THEN schedule_init_device_retry(r.s, d) ELSE r.s

\* Variant that re-attaches the streams without closing the device.
C15_mutant_restart_dev(s, d, e) ==
  restart_dev_after(init_and_attach_streams(s, d, e), d)

restart_dev(s, d, e) ==
  restart_dev_after(init_and_attach_streams(close_dev(s, d), d, e), d)

\* The condition of stream_added_cb for re-opening an enabled device.
needs_reopen(s, d, st) ==
  /\ d \in s.open
  /\ st.num_channels > s.fmt[d]
  /\ st.num_channels <= max_supported_channels(d)

RECURSIVE init_enabled_devs(_, _, _, _, _)
RECURSIVE init_enabled_dev_after(_, _, _, _, _)

\* The DL_FOREACH of stream_added_cb over the enabled devices, from the i-th
\* on: the state, the devices collected in iodevs[], and iodev_reopened.
init_enabled_devs(s, st, i, acc, e) ==
  IF i > Len(s.enabled[st.direction]) THEN [s |-> s, acc |-> acc]
  ELSE IF s.enabled[st.direction][i] = fallback_devs(st.direction)
  THEN init_enabled_devs(s, st, i + 1, acc, e)
  ELSE IF needs_reopen(s, s.enabled[st.direction][i], st)
  THEN init_enabled_devs(
         restart_dev(
           possibly_enable_fallback(
             MLog(s, "DEV_REOPEN", s.enabled[st.direction][i], "",
                  st.num_channels),
             st.direction, e),
           s.enabled[st.direction][i], e),
         st, i + 1, [acc EXCEPT !.reopened = TRUE], e)
  ELSE init_enabled_dev_after(
         init_device(s, s.enabled[st.direction][i], st, e), st, i, acc, e)

init_enabled_dev_after(r, st, i, acc, e) ==
  IF r.rc # "OK"
  THEN init_enabled_devs(
         schedule_init_device_retry(r.s, r.s.enabled[st.direction][i]),
         st, i + 1, acc, e)
  ELSE init_enabled_devs(
         r.s, st, i + 1,
         [acc EXCEPT !.iodevs = @ \cup {r.s.enabled[st.direction][i]}], e)

\* The end of stream_added_cb: x is what the loop produced.
stream_added_finish(x, st, e) ==
  IF x.acc.iodevs # {}
  THEN possibly_disable_fallback(
         add_stream_to_open_devs(x.s, st, x.acc.iodevs), st.direction, e)
  ELSE IF ~x.acc.reopened
  THEN possibly_enable_fallback(x.s, st.direction, e)
  ELSE possibly_disable_fallback(x.s, st.direction, e)

stream_added_cb(s, st, e) ==
  IF s.suspended THEN s
  ELSE IF st.is_pinned THEN pinned_stream_added(s, st, e)
  ELSE stream_added_finish(
         init_enabled_devs(catch_with_fallback(s, st, e), st, 1,
                           [iodevs |-> {}, reopened |-> FALSE], e),
         st, e)

close_pinned_device(s, d) == close_dev(s, d)

pinned_stream_removed(s, st) ==
  IF find_pinned_device(s, st) = "NULL" THEN s
  ELSE IF /\ ~cras_iodev_list_dev_is_enabled(s, find_pinned_device(s, st))
          /\ ~stream_list_has_pinned_stream(s, find_pinned_device(s, st))
  THEN close_pinned_device(s, find_pinned_device(s, st))
  ELSE s

\* Variant that closes the output devices at once as well.
RECURSIVE C27_mutant_close_unpinned_devs(_, _, _)
C27_mutant_close_unpinned_devs(s, list, i) ==
  IF i > Len(list) THEN s
  ELSE IF stream_list_has_pinned_stream(s, list[i])
  THEN C27_mutant_close_unpinned_devs(s, list, i + 1)
  ELSE C27_mutant_close_unpinned_devs(close_dev(s, list[i]), list, i + 1)

\* idle_timer = cras_tm_create_timer(..., idle_dev_check, NULL)
create_idle_timer(s) ==
  IF s.tm.on THEN [s EXCEPT !.tm.armed = @ + 1] ELSE s

\* idle_dev_check(NULL, NULL) right after the idle timeout of d was set: d
\* counts as an idle device, idle_timer is overwritten and a timer created.
idle_dev_check_now(s, d) ==
  create_idle_timer([s EXCEPT !.idle = @ \cup {d}])

\* The second loop of possibly_close_enabled_devs, over the device list.
RECURSIVE close_unpinned_devs(_, _, _)
close_unpinned_devs(s, list, i) ==
  IF i > Len(list) THEN s
  ELSE IF stream_list_has_pinned_stream(s, list[i])
  THEN close_unpinned_devs(s, list, i + 1)
  ELSE IF direction(list[i]) = "INPUT"
  THEN close_unpinned_devs(close_dev(s, list[i]), list, i + 1)
  ELSE close_unpinned_devs(idle_dev_check_now(s, list[i]), list, i + 1)

possibly_close_enabled_devs(s, dir) ==
  IF \E i \in DOMAIN s.streams :
       s.streams[i].direction = dir /\ ~s.streams[i].is_pinned
  THEN s
  ELSE close_unpinned_devs(s, s.enabled[dir], 1)

stream_removed_cb(s, st) ==
  possibly_close_enabled_devs(
    IF st.is_pinned THEN pinned_stream_removed(s, st) ELSE s, st.direction)

\* idle_dev_check when the idle timeouts have expired.
RECURSIVE idle_dev_check(_, _, _)
idle_dev_check(s, list, i) ==
  IF i > Len(list) THEN s
  ELSE IF list[i] \in s.idle
  THEN idle_dev_check(close_dev(s, list[i]), list, i + 1)
  ELSE idle_dev_check(s, list, i + 1)

\* init_device_cb once init_and_attach_streams returned r.
init_device_cb_after(r, d, e) ==
  IF r.rc # "OK" THEN r.s
  ELSE possibly_disable_fallback(r.s, direction(d), e)

\* init_device_cb for the oldest retry record.
init_device_cb(s, e) ==
  IF Head(s.retries) \in s.open THEN [s EXCEPT !.retries = Tail(@)]
  ELSE init_device_cb_after(
         init_and_attach_streams([s EXCEPT !.retries = Tail(@)],
                                 Head(s.retries), e),
         Head(s.retries), e)

\* The first loop of suspend_devs, over the streams.
RECURSIVE suspend_streams_from(_, _)
RECURSIVE suspend_pinned_stream(_, _, _)
suspend_streams_from(s, i) ==
  IF i > Len(s.streams) THEN s
  ELSE IF s.streams[i].is_pinned /\ s.streams[i].hotword
  THEN suspend_streams_from(s, i + 1)
  ELSE IF s.streams[i].is_pinned
  THEN suspend_pinned_stream(
         audio_thread_disconnect_stream(s, s.streams[i].id,
                                        s.streams[i].pinned_dev_idx),
         s.streams[i].pinned_dev_idx, i)
  ELSE suspend_streams_from(
         audio_thread_disconnect_stream(s, s.streams[i].id, "ALL"), i + 1)

suspend_pinned_stream(s, d, i) ==
  IF ~cras_iodev_list_dev_is_enabled(s, d)
  THEN suspend_streams_from(close_dev(s, d), i + 1)
  ELSE suspend_streams_from(s, i + 1)

RECURSIVE close_devs(_, _, _)
close_devs(s, list, i) ==
  IF i > Len(list) THEN s
  ELSE close_devs(close_dev(s, list[i]), list, i + 1)

\* audio_thread_add_stream: the stream joins the device if the audio
\* thread has it open.
audio_thread_add_stream(s, st, d) ==
  IF d \in s.open THEN add_stream_to_open_devs(s, st, {d}) ELSE s

HotwordStreamIdxs(s) == {i \in DOMAIN s.streams : s.streams[i].hotword}

\* find_hotword_stream_dev: the first hotword stream of the list.
find_hotword_stream(s) ==
  s.streams[CHOOSE i \in HotwordStreamIdxs(s) :
              \A k \in HotwordStreamIdxs(s) : i <= k]

\* The loop of cras_iodev_list_suspend_hotword_streams and of
\* cras_iodev_list_resume_hotword_stream: the hotword streams pinned to
\* hotword_dev leave from and join to.
RECURSIVE move_hotword_streams(_, _, _, _, _)
move_hotword_streams(s, hotword_dev, from, to, i) ==
  IF i > Len(s.streams) THEN s
  ELSE IF ~s.streams[i].hotword \/ s.streams[i].pinned_dev_idx # hotword_dev
  THEN move_hotword_streams(s, hotword_dev, from, to, i + 1)
  ELSE move_hotword_streams(
         audio_thread_add_stream(
           audio_thread_disconnect_stream(s, s.streams[i].id, from),
           s.streams[i], to),
         hotword_dev, from, to, i + 1)

cras_iodev_list_suspend_hotword_streams(s, e) ==
  IF HotwordStreamIdxs(s) = {} THEN [s EXCEPT !.hw_suspended = TRUE]
  ELSE [close_pinned_device(
          move_hotword_streams(
            init_pinned_device(s, "EMPTY_HOTWORD", find_hotword_stream(s),
                               e).s,
            find_hotword_stream(s).pinned_dev_idx,
            find_hotword_stream(s).pinned_dev_idx, "EMPTY_HOTWORD", 1),
          find_hotword_stream(s).pinned_dev_idx)
          EXCEPT !.hw_suspended = TRUE]

cras_iodev_list_resume_hotword_stream(s, e) ==
  IF HotwordStreamIdxs(s) = {} THEN [s EXCEPT !.hw_suspended = FALSE]
  ELSE [close_pinned_device(
          move_hotword_streams(
            init_pinned_device(s, find_hotword_stream(s).pinned_dev_idx,
                               find_hotword_stream(s), e).s,
            find_hotword_stream(s).pinned_dev_idx,
            "EMPTY_HOTWORD", find_hotword_stream(s).pinned_dev_idx, 1),
          "EMPTY_HOTWORD")
          EXCEPT !.hw_suspended = FALSE]

\* The end of suspend_devs.
suspend_hotword(s, e) ==
  IF s.hw_pause
  THEN [cras_iodev_list_suspend_hotword_streams(s, e)
          EXCEPT !.hw_auto_resume = TRUE]
  ELSE s

suspend_devs(s, e) ==
  suspend_hotword(
    close_devs([suspend_streams_from(s, 1) EXCEPT !.suspended = TRUE],
               s.enabled["OUTPUT"] \o s.enabled["INPUT"], 1), e)

\* The start of resume_devs.
resume_hotword(s, e) ==
  IF s.hw_auto_resume
  THEN [cras_iodev_list_resume_hotword_stream(s, e)
          EXCEPT !.hw_auto_resume = FALSE]
  ELSE s

RECURSIVE resume_streams_from(_, _, _)
resume_streams_from(s, i, e) ==
  IF i > Len(s.streams) THEN s
  ELSE IF s.streams[i].hotword THEN resume_streams_from(s, i + 1, e)
  ELSE resume_streams_from(stream_added_cb(s, s.streams[i], e), i + 1, e)

\* Variant that re-adds only the first stream of the list.
C10_mutant_resume_devs(s, e) ==
  IF s.streams = <<>> THEN [s EXCEPT !.suspended = FALSE]
  ELSE stream_added_cb([s EXCEPT !.suspended = FALSE], s.streams[1], e)

resume_devs(s, e) ==
  resume_streams_from(resume_hotword([s EXCEPT !.suspended = FALSE], e), 1, e)

\* Node ids: cras_make_node_id, dev_index_of and node_index_of.
cras_make_node_id(d, idx) == [dev |-> d, node |-> idx]
dev_index_of(node_id) == node_id.dev
node_index_of(node_id) == node_id.node
\* find_dev: "NULL" for an index no device has.
find_dev(d) == IF d \in Devs THEN d ELSE "NULL"

\* dev->update_active_node(dev, node_idx, dev_enabled) of the backends: the
\* node becomes the device's active node when it is enabled.
update_active_node(s, d, node_idx, dev_enabled) ==
  IF dev_enabled
  THEN SLog([s EXCEPT !.node[d] = node_idx], "update_active_node", d, "",
            node_idx)
  ELSE s

\* cras_iodev_list_add_active_node from the first update_active_node on.
add_active_node_enable(s, dir, d, node_idx, e) ==
  cras_iodev_list_notify_active_node_changed(
    enable_device(
      update_active_node(
        possibly_disable_fallback(
          update_active_node(s, d, node_idx, TRUE), dir, e),
        d, node_idx, TRUE),
      d, e).s,
    dir)

\* Variant that never enables the fallback device.
C9_mutant_cras_iodev_list_disable_dev(s, d, force_close, e) ==
  IF ~cras_iodev_list_dev_is_enabled(s, d)
  THEN (IF force_close THEN close_pinned_device(s, d) ELSE s)
  ELSE cras_iodev_list_notify_active_node_changed(
         disable_device(s, d, force_close, e), direction(d))

cras_iodev_list_disable_dev(s, d, force_close, e) ==
  IF ~cras_iodev_list_dev_is_enabled(s, d)
  THEN (IF force_close THEN close_pinned_device(s, d) ELSE s)
  ELSE cras_iodev_list_notify_active_node_changed(
         disable_device(
           IF s.enabled[direction(d)] = <<d>>
           THEN enable_device(s, fallback_devs(direction(d)), e).s
           ELSE s,
           d, force_close, e),
         direction(d))

cras_iodev_list_rm_active_node(s, dir, d, e) ==
  cras_iodev_list_disable_dev(s, d, FALSE, e)

\* Variant that leaves an enabled device alone whatever node is named.
C29_mutant_cras_iodev_list_add_active_node(s, dir, node_id, e) ==
  IF find_dev(dev_index_of(node_id)) = "NULL" THEN s
  ELSE IF direction(dev_index_of(node_id)) # dir THEN s
  ELSE IF cras_iodev_list_dev_is_enabled(s, dev_index_of(node_id)) THEN s
  ELSE add_active_node_enable(s, dir, dev_index_of(node_id),
                              node_index_of(node_id), e)

cras_iodev_list_add_active_node(s, dir, node_id, e) ==
  IF find_dev(dev_index_of(node_id)) = "NULL" THEN s
  ELSE IF direction(dev_index_of(node_id)) # dir THEN s
  ELSE IF cras_iodev_list_dev_is_enabled(s, dev_index_of(node_id))
  THEN (IF node_index_of(node_id) = s.node[dev_index_of(node_id)] THEN s
        ELSE add_active_node_enable(
               cras_iodev_list_disable_dev(s, dev_index_of(node_id), TRUE, e),
               dir, dev_index_of(node_id), node_index_of(node_id), e))
  ELSE add_active_node_enable(s, dir, dev_index_of(node_id),
                              node_index_of(node_id), e)

\* The first loop of cras_iodev_list_select_node.
new_node_already_enabled(s, dir, node_id) ==
  /\ find_dev(dev_index_of(node_id)) # "NULL"
  /\ dev_index_of(node_id) \in Range(s.enabled[dir])
  /\ s.node[dev_index_of(node_id)] = node_index_of(node_id)

\* The second loop of cras_iodev_list_select_node over the enabled list as
\* it was when the loop began.  disable_device frees the record the loop
\* stands on; the walk goes on only if the freed record still shows its old
\* link.
RECURSIVE select_node_disable(_, _, _, _, _, _)
select_node_disable(s, list, i, new_dev, already, e) ==
  IF i > Len(list) THEN s
  ELSE IF list[i] = fallback_devs(direction(list[i]))
  THEN select_node_disable(s, list, i + 1, new_dev, already, e)
  ELSE IF list[i] = new_dev /\ already
  THEN select_node_disable(s, list, i + 1, new_dev, already, e)
  ELSE IF e.stale_next
  THEN select_node_disable(disable_device(s, list[i], list[i] = new_dev, e),
                           list, i + 1, new_dev, already, e)
  ELSE disable_device(s, list[i], list[i] = new_dev, e)

\* cras_iodev_list_select_node once enable_device returned r.
select_node_after_enable(r, dir, e) ==
  IF r.rc = "OK" THEN possibly_disable_fallback(r.s, dir, e) ELSE r.s

select_node_enable(s, dir, node_id, already, e) ==
  IF find_dev(dev_index_of(node_id)) # "NULL" /\ ~already
  THEN select_node_after_enable(
         enable_device(
           update_active_node(s, dev_index_of(node_id),
                              node_index_of(node_id), TRUE),
           dev_index_of(node_id), e),
         dir, e)
  ELSE s

select_node_from_loop(s, dir, node_id, already, e) ==
  cras_iodev_list_notify_active_node_changed(
    select_node_enable(
      select_node_disable(s, s.enabled[dir], 1,
                          find_dev(dev_index_of(node_id)), already, e),
      dir, node_id, already, e),
    dir)

cras_iodev_list_select_node(s, dir, node_id, e) ==
  IF /\ find_dev(dev_index_of(node_id)) # "NULL"
     /\ direction(dev_index_of(node_id)) # dir
  THEN s
  ELSE select_node_from_loop(
         IF new_node_already_enabled(s, dir, node_id) THEN s
         ELSE possibly_enable_fallback(s, dir, e),
         dir, node_id, new_node_already_enabled(s, dir, node_id), e)

\* stream_list_add: the stream enters the list, then stream_added_cb.
\* The list is kept in descending order of channel count.
stream_list_insert(list, st) ==
  IF \A i \in DOMAIN list : list[i].num_channels >= st.num_channels
  THEN Append(list, st)
  ELSE SubSeq(list, 1,
              Cardinality({i \in DOMAIN list :
                             list[i].num_channels >= st.num_channels}))
       \o <<st>>
       \o SubSeq(list,
                 Cardinality({i \in DOMAIN list :
                                list[i].num_channels >= st.num_channels}) + 1,
                 Len(list))

stream_list_add(s, st, e) ==
  stream_added_cb([s EXCEPT !.streams = stream_list_insert(@, st)], st, e)

\* stream_list_rm: the stream leaves the list and the audio thread, then
\* stream_removed_cb.
stream_list_rm(s, st) ==
  stream_removed_cb(
    audio_thread_disconnect_stream(
      [s EXCEPT !.streams = SelectSeq(@, LAMBDA x : x.id # st.id)],
      st.id, "ALL"),
    st)

(***************************************************************************)
(* Entry points of the device list, each run to completion on the main     *)
(* thread, and the environment of the device list.                         *)
(***************************************************************************)
\* Bounds of the server model.
MaxRStreams == 2
MaxRetries == 1
\* Idle timers counted at once.
MaxIdleTimers == 2

\* Outcomes left open by the code of one entry point.
ServerOutcomes == {[stale_next |-> n] : n \in BOOLEAN}

\* The kinds of stream clients add: a default output stream and an output
\* stream pinned to the USB device.
RStream(sid, dir, pinned_dev_idx) ==
  [id |-> sid, direction |-> dir, is_pinned |-> pinned_dev_idx # "NO_DEVICE",
   pinned_dev_idx |-> pinned_dev_idx, num_channels |-> LowChannels,
   hotword |-> FALSE]

NewStreams ==
  LET sid == CHOOSE n \in 1..(MaxRStreams + 1) :
               /\ \A i \in DOMAIN stream_list : stream_list[i].id # n
               /\ \A m \in 1..(n - 1) :
                    \E i \in DOMAIN stream_list : stream_list[i].id = m
  IN {RStream(sid, "OUTPUT", "NO_DEVICE"), RStream(sid, "OUTPUT", "USB_OUT")}

\* One entry point ran and produced one of the states in results.
ServerStep(results) ==
  /\ \E s \in results :
       /\ Len(s.retries) <= MaxRetries
       /\ s.tm.armed <= MaxIdleTimers
       /\ SetServer(s)
  /\ UNCHANGED non_server_vars

StreamAdd ==
  /\ Len(stream_list) < MaxRStreams
  /\ \E st \in NewStreams :
       ServerStep({stream_list_add(Server, st, e) : e \in ServerOutcomes})

\* Streams with more channels than the devices open with by default.
HighStreams == {[st EXCEPT !.num_channels = HighChannels] : st \in NewStreams}

StreamAddHigh ==
  /\ Len(stream_list) < MaxRStreams
  /\ \E st \in HighStreams :
       ServerStep({stream_list_add(Server, st, e) : e \in ServerOutcomes})

\* A stream with the HOTWORD_STREAM flag pinned to the hotword device.
HotwordStreams ==
  {[st EXCEPT !.direction = "INPUT", !.is_pinned = TRUE,
              !.pinned_dev_idx = "HOTWORD", !.hotword = TRUE] :
     st \in NewStreams}

StreamAddHotword ==
  /\ Len(stream_list) < MaxRStreams
  /\ \E st \in HotwordStreams :
       ServerStep({stream_list_add(Server, st, e) : e \in ServerOutcomes})

StreamRm ==
  \E st \in Range(stream_list) : ServerStep({stream_list_rm(Server, st)})

\* The nodes the UI selects and unselects: those of the output devices.
SelectableDevs == {"SPEAKER", "USB_OUT"}

AddActiveNode ==
  \E dir \in Directions, d \in SelectableDevs :
    ServerStep({cras_iodev_list_add_active_node(
                  Server, dir, cras_make_node_id(d, 0), e) :
                e \in ServerOutcomes})

RmActiveNode ==
  \E dir \in Directions, d \in SelectableDevs :
    ServerStep({cras_iodev_list_rm_active_node(Server, dir, d, e) :
                e \in ServerOutcomes})

\* sys_suspend_change(suspended = 1)
Suspend ==
  /\ ~stream_list_suspended
  /\ ServerStep({suspend_devs(Server, e) : e \in ServerOutcomes})

\* sys_suspend_change(suspended = 0)
Resume ==
  /\ stream_list_suspended
  /\ ServerStep({resume_devs(Server, e) : e \in ServerOutcomes})

\* The timer of the oldest dev_init_retry fires.
InitDeviceCb ==
  /\ init_retries # <<>>
  /\ ServerStep({init_device_cb(Server, e) : e \in ServerOutcomes})

\* The idle timer fires after the idle timeouts.
IdleDevCheck ==
  /\ idle_devs # {}
  /\ ServerStep({idle_dev_check(Server, enabled_devs["OUTPUT"], 1)})

SetAecOnDspIsDisallowed ==
  \E is_disallowed \in BOOLEAN :
    ServerStep({cras_iodev_list_set_aec_on_dsp_is_disallowed(
                  Server, is_disallowed)})

ServerEnvUnchanged ==
  /\ UNCHANGED <<enabled_devs, open_devs, idle_devs, stream_list, attached,
                 init_retries, stream_list_suspended,
                 non_dsp_aec_echo_ref_dev_alive, aec_on_dsp_is_disallowed,
                 sys_state, dev_format, hotword_suspended,
                 hotword_auto_resume, active_node, idle_timers>>
  /\ main_log' = [main_log EXCEPT !.ev = <<>>]
  /\ UNCHANGED non_server_vars

NoDev == [dev |-> "none", kind |-> "none"]

\* The devices that can stop working: the external one.
BreakableDevs == {"USB_OUT"}

\* A device stops opening: cras_iodev_open fails ("open") or
\* audio_thread_add_open_dev does ("thread").
DevBreaks ==
  /\ broken = NoDev
  /\ \E d \in BreakableDevs, kind \in {"open", "thread"} :
       broken' = [dev |-> d, kind |-> kind]
  /\ slog' = <<>>
  /\ UNCHANGED hotword_pause_at_suspend
  /\ ServerEnvUnchanged

\* The hotword device stops opening.
HotwordDevBreaks ==
  /\ broken = NoDev
  /\ \E kind \in {"open", "thread"} :
       broken' = [dev |-> "HOTWORD", kind |-> kind]
  /\ slog' = <<>>
  /\ UNCHANGED hotword_pause_at_suspend
  /\ ServerEnvUnchanged

\* cras_system_set_hotword_pause_at_suspend
SetHotwordPauseAtSuspend ==
  /\ hotword_pause_at_suspend' = ~hotword_pause_at_suspend
  /\ UNCHANGED <<broken, slog>>
  /\ ServerEnvUnchanged

DevRecovers ==
  /\ broken # NoDev
  /\ broken' = NoDev
  /\ slog' = <<>>
  /\ UNCHANGED hotword_pause_at_suspend
  /\ ServerEnvUnchanged

DefaultSys ==
  [standalone_mode |-> FALSE, dsp_nc_supported |-> TRUE,
   bypass_block_nc |-> FALSE]

\* The device list after cras_iodev_list_init.
ServerStart ==
  /\ enabled_devs = [OUTPUT |-> <<"SILENT_PLAYBACK">>,
                     INPUT |-> <<"SILENT_RECORD">>]
  /\ open_devs = {}
  /\ idle_devs = {}
  /\ stream_list = <<>>
  /\ attached = {}
  /\ init_retries = <<>>
  /\ stream_list_suspended = FALSE
  /\ non_dsp_aec_echo_ref_dev_alive = FALSE
  /\ aec_on_dsp_is_disallowed = FALSE
  /\ broken = NoDev
  /\ slog = <<>>
  /\ dev_format = [d \in Devs |-> 0]
  /\ hotword_suspended = FALSE
  /\ hotword_auto_resume = FALSE
  /\ active_node = [d \in Devs |-> 0]

\* The client after cras_client_create.
ClientStart ==
  /\ id = -1
  /\ server_fd = "none"
  /\ server_fd_state = "DISCONNECTED"
  /\ server_event_fd = 0
  /\ file \in BOOLEAN
  /\ listening \in BOOLEAN
  /\ listening => file
  /\ sock_file_exists = file
  /\ next_stream_id = 0
  /\ streams = <<>>
  /\ server_state = FALSE
  /\ server_connection_cb = FALSE
  /\ observer_ops = {}
  /\ trace = <<>>
  /\ reported_status = "none"
  /\ conn = "none"
  /\ inbox = <<>>
  /\ fw_events = <<>>

ClientEnv ==
  \/ FileCreated
  \/ FileDeleted
  \/ ServerListen
  \/ ConnectCompletes
  \/ ServerSend
  \/ ServerClose

\* The connection machine with an application that sets and clears its
\* callbacks.
ClientNext ==
  \/ SockFileWaitDispatch
  \/ ServerFdDispatch
  \/ CmdServerConnectAsync
  \/ SetConnectionStatusCb
  \/ SetObserverCallback
  \/ ClientEnv

\* The connection machine with an application that adds and removes streams.
StreamNext ==
  \/ SockFileWaitDispatch
  \/ ServerFdDispatch
  \/ CmdServerConnectAsync
  \/ CmdAddStream
  \/ CmdRemoveStream
  \/ ClientEnv


(***************************************************************************)
(*           PART III - device indexes and flexible loopback               *)
(***************************************************************************)
\* Pairs the list holds at most (20 in the source, scaled down).
NUM_FLOOP_PAIRS_MAX == 2

MAX_SPECIAL_DEVICE_IDX == 4
\* Width of info.idx: indexes wrap at IdxWrap (2^32 in C), scaled down to
\* leave one index more than a device list can hold devices.
IdxWrap == MAX_SPECIAL_DEVICE_IDX + NUM_FLOOP_PAIRS_MAX + 2
ENOTSUP == 95
ENOMEM == 12

\* The client_types_mask values a request can carry: one more than fits.
FloopParams == 1..(NUM_FLOOP_PAIRS_MAX + 1)

Floop == [pairs |-> floop_pair_list, devs |-> dev_lists, next |-> next_iodev_idx]

SetFloop(f) ==
  /\ floop_pair_list' = f.pairs
  /\ dev_lists' = f.devs
  /\ next_iodev_idx' = f.next

\* The while loop of add_dev_to_list: the first index from i on that is no
\* special index and that no device of the list has.
RECURSIVE free_idx(_, _)
free_idx(list, i) ==
  IF i < MAX_SPECIAL_DEVICE_IDX THEN free_idx(list, MAX_SPECIAL_DEVICE_IDX)
  ELSE IF i \notin Range(list) THEN i
  ELSE free_idx(list, (i + 1) % IdxWrap)

\* add_dev_to_list for a device that is not in the list: the state and the
\* index the device got.
add_dev_to_list(f, dir) ==
  [f |-> [f EXCEPT !.devs[dir] = <<free_idx(f.devs[dir], f.next)>> \o @,
                   !.next = (free_idx(f.devs[dir], f.next) + 1) % IdxWrap],
   idx |-> free_idx(f.devs[dir], f.next)]

cras_floop_pair_match_params(fpair, params) == fpair.params = params

\* cras_floop_pair_create: the pair's two devices are added to the device
\* lists, the input one first.
floop_pair_with_output(r, params, in_idx) ==
  [f |-> r.f, fpair |-> [params |-> params, input |-> in_idx,
                          output |-> r.idx]]

floop_pair_with_input(r, params) ==
  floop_pair_with_output(add_dev_to_list(r.f, "OUTPUT"), params, r.idx)

cras_floop_pair_create(f, params) ==
  floop_pair_with_input(add_dev_to_list(f, "INPUT"), params)

floop_pair_append(r) ==
  [f |-> [r.f EXCEPT !.pairs = Append(@, r.fpair)], rc |-> r.fpair.input]

FloopMatches(f, params) ==
  {i \in DOMAIN f.pairs : cras_floop_pair_match_params(f.pairs[i], params)}

\* Variant that never looks for a matching pair.
C13_mutant_cras_iodev_list_request_floop(f, params, enabled, alloc_ok) ==
  IF ~enabled THEN [f |-> f, rc |-> -ENOTSUP]
  ELSE IF Len(f.pairs) >= NUM_FLOOP_PAIRS_MAX THEN [f |-> f, rc |-> -EAGAIN]
  ELSE IF ~alloc_ok THEN [f |-> f, rc |-> -ENOMEM]
  ELSE floop_pair_append(cras_floop_pair_create(f, params))

\* Variant whose capacity test lets one pair too many in.
C14_mutant_cras_iodev_list_request_floop(f, params, enabled, alloc_ok) ==
  IF ~enabled THEN [f |-> f, rc |-> -ENOTSUP]
  ELSE IF FloopMatches(f, params) # {}
    THEN [f |-> f,
          rc |-> f.pairs[CHOOSE i \in FloopMatches(f, params) :
                   \A k \in FloopMatches(f, params) : i <= k].input]
  ELSE IF Len(f.pairs) > NUM_FLOOP_PAIRS_MAX THEN [f |-> f, rc |-> -EAGAIN]
  ELSE IF ~alloc_ok THEN [f |-> f, rc |-> -ENOMEM]
  ELSE floop_pair_append(cras_floop_pair_create(f, params))

cras_iodev_list_request_floop(f, params, enabled, alloc_ok) ==
  IF ~enabled THEN [f |-> f, rc |-> -ENOTSUP]
  ELSE IF FloopMatches(f, params) # {}
    THEN [f |-> f,
          rc |-> f.pairs[CHOOSE i \in FloopMatches(f, params) :
                   \A k \in FloopMatches(f, params) : i <= k].input]
  ELSE IF Len(f.pairs) >= NUM_FLOOP_PAIRS_MAX THEN [f |-> f, rc |-> -EAGAIN]
  ELSE IF ~alloc_ok THEN [f |-> f, rc |-> -ENOMEM]
  ELSE floop_pair_append(cras_floop_pair_create(f, params))

\* Indexes of the devices of a direction that belong to a floop pair.
FloopIdxs(f, dir) ==
  {IF dir = "INPUT" THEN f.pairs[i].input ELSE f.pairs[i].output :
     i \in DOMAIN f.pairs}

OtherIdxs(f, dir) == Range(f.devs[dir]) \ FloopIdxs(f, dir)

\* cras_iodev_list_rm_input of an idle device.
rm_dev_from_list(f, dir, idx) ==
  [f EXCEPT !.devs[dir] = SelectSeq(@, LAMBDA x : x # idx)]

NoFloopRet == [params |-> 0, rc |-> 0, pairs_before |-> 0]

\* A client sends REQUEST_FLOOP.
RequestFloop ==
  /\ \E params \in FloopParams, alloc_ok \in BOOLEAN :
       /\ SetFloop(cras_iodev_list_request_floop(
                     Floop, params, floop_feature, alloc_ok).f)
       /\ floop_ret' = [params |-> params,
                        rc |-> cras_iodev_list_request_floop(
                                 Floop, params, floop_feature, alloc_ok).rc,
                        pairs_before |-> Len(floop_pair_list)]
  /\ UNCHANGED <<floop_feature, wait_vars, client_vars, server_vars,
                 audio_vars, api_vars>>

\* The one input device of another kind is plugged:
\* cras_iodev_list_add_input.
AddDev ==
  /\ \E dir \in {"INPUT"} :
       /\ OtherIdxs(Floop, dir) = {}
       /\ SetFloop(add_dev_to_list(Floop, dir).f)
  /\ floop_ret' = NoFloopRet
  /\ UNCHANGED <<floop_feature, wait_vars, client_vars, server_vars,
                 audio_vars, api_vars>>

\* That device is unplugged.
RmDev ==
  /\ \E dir \in {"INPUT"} : \E idx \in OtherIdxs(Floop, dir) :
       SetFloop(rm_dev_from_list(Floop, dir, idx))
  /\ floop_ret' = NoFloopRet
  /\ UNCHANGED <<floop_feature, wait_vars, client_vars, server_vars,
                 audio_vars, api_vars>>

\* The index allocator after cras_iodev_list_init, no pair requested yet.
FloopStart ==
  /\ dev_lists = [dir \in Directions |-> <<>>]
  /\ next_iodev_idx = MAX_SPECIAL_DEVICE_IDX
  /\ floop_pair_list = <<>>
  /\ floop_ret = NoFloopRet

FloopOff == FloopStart /\ floop_feature = FALSE

\* No stream, no audio task.
\* The control task runs and no blocking call is made.
ControlTaskRuns == thread_running = TRUE /\ blocking = NoCall

(***************************************************************************)
(*      PART IV - the server state shm and the command pipes               *)
(***************************************************************************)
\* Updates the server makes to its state; update_count does not wrap
\* within them.
MaxUpdates == 2

\* The server state after cras_system_state_init: update_count is 0 and
\* each area holds the number of the update that wrote it last.
ShmStart ==
  [update_count |-> 0, input_devs |-> 0, input_nodes |-> 0, writer |-> "idle"]

ReaderIdle == [pc |-> "idle", version |-> 0, devs |-> 0, nodes |-> 0]

\* One update of the server: update_count becomes odd, the areas are
\* written one after the other, update_count becomes even.
update_begin(m) == [m EXCEPT !.update_count = @ + 1, !.writer = "devs"]
write_input_devs(m) ==
  [m EXCEPT !.input_devs = (m.update_count + 1) \div 2, !.writer = "nodes"]
write_input_nodes(m) ==
  [m EXCEPT !.input_nodes = (m.update_count + 1) \div 2, !.writer = "end"]
update_end(m) == [m EXCEPT !.update_count = @ + 1, !.writer = "idle"]

\* begin_server_state_read: one turn of its loop, which yields while
\* update_count is odd.
begin_server_state_read(r, m) ==
  IF m.update_count % 2 = 1 THEN r
  ELSE [r EXCEPT !.version = m.update_count, !.pc = "copy_devs"]

\* Variant that never sees a change of update_count.
C22_mutant_end_server_state_read(m, count) == 0

end_server_state_read(m, count) ==
  IF count # m.update_count THEN 0 - EAGAIN ELSE 0

\* cras_client_get_input_devices between the two calls, and after the
\* second.
copy_input_devs(r, m) == [r EXCEPT !.devs = m.input_devs, !.pc = "copy_nodes"]
copy_input_nodes(r, m) == [r EXCEPT !.nodes = m.input_nodes, !.pc = "end"]
read_inputs_end(r, m) ==
  IF end_server_state_read(m, r.version) # 0 THEN [r EXCEPT !.pc = "begin"]
  ELSE [r EXCEPT !.pc = "done"]

\* The steps of the server and of the reader leave everything else alone.
ShmStep(m, r) ==
  /\ shm_state' = m
  /\ state_reader' = r
  /\ UNCHANGED <<client_vars, server_vars, floop_vars, wait_vars, audio_vars,
                 thread_running, blocking, command_pipe, command_reply_pipe,
                 app_threads>>

UpdateBegin ==
  /\ shm_state.writer = "idle"
  /\ shm_state.update_count < 2 * MaxUpdates
  /\ ShmStep(update_begin(shm_state), state_reader)

WriteInputDevs ==
  /\ shm_state.writer = "devs"
  /\ ShmStep(write_input_devs(shm_state), state_reader)

WriteInputNodes ==
  /\ shm_state.writer = "nodes"
  /\ ShmStep(write_input_nodes(shm_state), state_reader)

UpdateEnd ==
  /\ shm_state.writer = "end"
  /\ ShmStep(update_end(shm_state), state_reader)

\* cras_client_get_input_devices is called on a client whose server state
\* is attached, or returns to its caller.
GetInputDevices ==
  /\ state_reader.pc \in {"idle", "done"}
  /\ server_state
  /\ ShmStep(shm_state,
             IF state_reader.pc = "idle"
             THEN [state_reader EXCEPT !.pc = "begin"] ELSE ReaderIdle)

BeginServerStateRead ==
  /\ state_reader.pc = "begin"
  /\ ShmStep(shm_state, begin_server_state_read(state_reader, shm_state))

CopyInputDevs ==
  /\ state_reader.pc = "copy_devs"
  /\ ShmStep(shm_state, copy_input_devs(state_reader, shm_state))

CopyInputNodes ==
  /\ state_reader.pc = "copy_nodes"
  /\ ShmStep(shm_state, copy_input_nodes(state_reader, shm_state))

EndServerStateRead ==
  /\ state_reader.pc = "end"
  /\ ShmStep(shm_state, read_inputs_end(state_reader, shm_state))

\* The application threads that send commands to the control task.
AppThreads == {"T1", "T2"}
NoReply == [issuer |-> "none", rc |-> 0]

\* What handle_command_message writes to the reply pipe.
command_rc(c, msg, e) ==
  IF msg.msg_id = "CLIENT_ADD_STREAM"
  THEN add_stream_rc(client_thread_add_stream(c, e))
  ELSE 0

\* The commands the application sends: it removes streams it has and adds
\* one while it has fewer than it keeps at once.
CommandsToSend ==
  {Cmd("CLIENT_REMOVE_STREAM", s.id) : s \in Range(streams)}
    \cup (IF Len(streams) + Len(command_pipe) < MaxStreams
          THEN {Cmd("CLIENT_ADD_STREAM", 0)} ELSE {})

\* send_command_message up to its read: the command is written to the
\* command pipe.
SendCommandMessage ==
  /\ thread_running
  /\ \E t \in AppThreads :
       /\ app_threads[t].pc = "idle"
       /\ \E msg \in CommandsToSend :
            command_pipe' = Append(command_pipe, [issuer |-> t, msg |-> msg])
       /\ app_threads' = [app_threads EXCEPT ![t].pc = "wait"]
  /\ UNCHANGED <<client_vars, server_vars, floop_vars, wait_vars, audio_vars,
                 thread_running, blocking, shm_state, state_reader,
                 command_reply_pipe>>

\* The control task finds the command pipe readable: handle_command_message
\* reads one command, runs it and writes its result to the reply pipe.
HandleCommandMessage ==
  /\ thread_running
  /\ fw_events = <<>>
  /\ ~ServerMsgReady
  /\ command_pipe # <<>>
  /\ \E e \in AddStreamOutcomes :
       /\ SetClient(handle_command_message(Client, Head(command_pipe).msg, e))
       /\ command_reply_pipe' =
            Append(command_reply_pipe,
                   [issuer |-> Head(command_pipe).issuer,
                    rc |-> command_rc(Client, Head(command_pipe).msg, e)])
  /\ command_pipe' = Tail(command_pipe)
  /\ AudFollow
  /\ UNCHANGED wait_vars
  /\ UNCHANGED <<file, listening, fw_events, server_vars, floop_vars,
                 thread_running, blocking, shm_state, state_reader,
                 app_threads>>

\* send_command_message's read of the reply pipe returns.
ReadCommandReply ==
  /\ command_reply_pipe # <<>>
  /\ \E t \in AppThreads :
       /\ app_threads[t].pc = "wait"
       /\ app_threads' =
            [app_threads EXCEPT ![t] = [pc |-> "idle",
                                        reply |-> Head(command_reply_pipe)]]
  /\ command_reply_pipe' = Tail(command_reply_pipe)
  /\ UNCHANGED <<client_vars, server_vars, floop_vars, wait_vars, audio_vars,
                 thread_running, blocking, shm_state, state_reader,
                 command_pipe>>

\* No update of the server state, no call of a getter, no command.
AppIdle ==
  /\ shm_state = ShmStart
  /\ state_reader = ReaderIdle
  /\ command_pipe = <<>>
  /\ command_reply_pipe = <<>>
  /\ app_threads = [t \in AppThreads |-> [pc |-> "idle", reply |-> NoReply]]

AudioStart ==
  /\ aud_threads = <<>>
  /\ stream_pipe = <<>>
  /\ aud_last = NoAudLast

HotwordPauseOff == hotword_pause_at_suspend = FALSE

vars == <<client_vars, server_vars, floop_vars, wait_vars, audio_vars,
          api_vars>>

\* The routing log is not read.
MainLogOff == main_log = [on |-> FALSE, ev |-> <<>>]
\* The armed idle timers are counted only by the specification that reads
\* them.
IdleTimersOff == idle_timers = [on |-> FALSE, armed |-> 0]
IdleTimersOn == idle_timers = [on |-> TRUE, armed |-> 0]

\* No file is waited for: the struct is not allocated, there is no inotify
\* instance and only the root directory exists.
NoPath == 0 - 1
NoFileWait ==
  [inotify_fd |-> FALSE, watch_id |-> 0 - 1, watch_path |-> NoPath,
   watch_dir |-> NoPath, watch_file_name |-> NoPath, allocated |-> FALSE]
NoInotify == [watches |-> {}, next_wd |-> 1, events |-> <<>>]
NoDispatch == [calls |-> <<>>, rc |-> 0, existed |-> FALSE, ran |-> FALSE]
WaitStart ==
  /\ file_wait = NoFileWait
  /\ inotify = NoInotify
  /\ wait_cb = NoDispatch
  /\ announced = FALSE
WaitOff == WaitStart /\ fs_depth = 0

ClientInit ==
  ClientStart /\ ServerStart /\ sys_state = DefaultSys /\ MainLogOff
  /\ FloopOff /\ HotwordPauseOff /\ AudioStart /\ AppIdle /\ ControlTaskRuns
  /\ IdleTimersOff
  /\ WaitOff

ClientSpec == ClientInit /\ [][ClientNext]_vars

StreamSpec == ClientInit /\ [][StreamNext]_vars

\* A client that is connected: what ClientSpec reaches when the server
\* listens and answers with CLIENT_CONNECTED.
ClientConnected ==
  /\ id = 1
  /\ server_fd = "sock"
  /\ server_fd_state = "CONNECTED"
  /\ server_event_fd = 1
  /\ file = TRUE
  /\ listening = TRUE
  /\ sock_file_exists = TRUE
  /\ next_stream_id = 0
  /\ streams = <<>>
  /\ server_state = TRUE
  /\ server_connection_cb = FALSE
  /\ observer_ops = {}
  /\ trace = <<>>
  /\ reported_status = "none"
  /\ conn = "up"
  /\ inbox = <<>>
  /\ fw_events = <<>>

ConnectedInit ==
  ClientConnected /\ ServerStart /\ sys_state = DefaultSys /\ MainLogOff
  /\ FloopOff /\ HotwordPauseOff /\ AudioStart /\ AppIdle /\ ControlTaskRuns
  /\ IdleTimersOff
  /\ WaitOff

\* The server updates its state while an application thread reads the
\* input devices from it.
ShmNext ==
  \/ UpdateBegin
  \/ WriteInputDevs
  \/ WriteInputNodes
  \/ UpdateEnd
  \/ GetInputDevices
  \/ BeginServerStateRead
  \/ CopyInputDevs
  \/ CopyInputNodes
  \/ EndServerStateRead

ShmSpec == ConnectedInit /\ [][ShmNext]_vars

\* Two application threads send commands to the control task.
CommandNext ==
  \/ SendCommandMessage
  \/ HandleCommandMessage
  \/ ReadCommandReply

CommandSpec == ConnectedInit /\ [][CommandNext]_vars

\* The control task with the audio tasks of its streams.
AudioNext ==
  \/ SockFileWaitDispatch
  \/ ServerFdDispatch
  \/ CmdServerConnectAsync
  \/ AudioAddStream
  \/ CmdRemoveStream
  \/ StreamConnected
  \/ AudioThreadStep
  \/ HandleStreamMessage
  \/ ClientEnv

AudioSpec == ClientInit /\ [][AudioNext]_vars

\* An application that connects with the blocking calls, before or after it
\* starts the control task.
ConnectInit ==
  ClientStart /\ ServerStart /\ sys_state = DefaultSys /\ MainLogOff
  /\ FloopOff /\ HotwordPauseOff /\ AudioStart /\ AppIdle
  /\ IdleTimersOff
  /\ WaitOff
  /\ thread_running = FALSE /\ blocking = NoCall

ConnectNext ==
  \/ RunThread
  \/ ConnectCall
  \/ ConnectWaitReturn
  \/ ConnectFallThrough
  \/ ConnectLoop
  \/ SockFileWaitDispatch
  \/ ServerFdDispatch
  \/ ClientEnv

ConnectSpec == ConnectInit /\ [][ConnectNext]_vars

ClientTypeOK ==
  /\ id \in {-1, 0, 1}
  /\ server_fd \in {"none", "sock", "timer"}
  /\ server_fd_state \in SocketStates
  /\ server_event_fd \in {0, 1}
  /\ Len(streams) <= MaxStreams

RoutingStart ==
  ClientStart /\ ~file /\ ServerStart /\ sys_state = DefaultSys /\ MainLogOff
  /\ FloopOff /\ HotwordPauseOff /\ AudioStart /\ AppIdle /\ ControlTaskRuns

RoutingInit == RoutingStart /\ IdleTimersOff /\ WaitOff

RoutingNext ==
  \/ StreamAdd
  \/ StreamRm
  \/ AddActiveNode
  \/ RmActiveNode
  \/ Suspend
  \/ Resume
  \/ InitDeviceCb
  \/ IdleDevCheck
  \/ DevBreaks
  \/ DevRecovers

RoutingSpec == RoutingInit /\ [][RoutingNext]_vars

NcInit ==
  /\ ClientStart /\ ~file /\ ServerStart /\ MainLogOff
  /\ FloopOff /\ HotwordPauseOff /\ AudioStart /\ AppIdle /\ ControlTaskRuns
  /\ IdleTimersOff
  /\ WaitOff
  /\ sys_state \in [standalone_mode : BOOLEAN, dsp_nc_supported : BOOLEAN,
                    bypass_block_nc : BOOLEAN]

NcNext ==
  \/ StreamAdd
  \/ StreamRm
  \/ AddActiveNode
  \/ RmActiveNode
  \/ IdleDevCheck
  \/ SetAecOnDspIsDisallowed

NcSpec == NcInit /\ [][NcNext]_vars

\* The device list with streams of two channel counts and devices that
\* open, the routing log being read.
ChannelInit ==
  /\ ClientStart /\ ~file /\ ServerStart /\ sys_state = DefaultSys
  /\ main_log = [on |-> TRUE, ev |-> <<>>]
  /\ FloopOff /\ HotwordPauseOff /\ AudioStart /\ AppIdle /\ ControlTaskRuns
  /\ IdleTimersOff
  /\ WaitOff

ChannelNext ==
  \/ StreamAdd
  \/ StreamAddHigh
  \/ StreamRm
  \/ AddActiveNode
  \/ RmActiveNode
  \/ IdleDevCheck

ChannelSpec == ChannelInit /\ [][ChannelNext]_vars

\* The index allocator and the floop pairs, with the feature on or off.
FloopInit ==
  /\ ClientStart /\ ~file /\ ServerStart /\ sys_state = DefaultSys
  /\ MainLogOff
  /\ FloopStart
  /\ floop_feature \in BOOLEAN
  /\ HotwordPauseOff /\ AudioStart /\ AppIdle /\ ControlTaskRuns
  /\ IdleTimersOff
  /\ WaitOff

FloopNext ==
  \/ RequestFloop
  \/ AddDev
  \/ RmDev

FloopSpec == FloopInit /\ [][FloopNext]_vars

\* The device list with a hotword stream, suspend and resume, the
\* hotword_pause_at_suspend flag being set and cleared, and a hotword device
\* that can fail to open.
HotwordInit ==
  /\ ClientStart /\ ~file /\ ServerStart /\ sys_state = DefaultSys
  /\ MainLogOff /\ FloopOff /\ AudioStart /\ AppIdle /\ ControlTaskRuns
  /\ IdleTimersOff
  /\ WaitOff
  /\ hotword_pause_at_suspend \in BOOLEAN

HotwordNext ==
  \/ StreamAdd
  \/ StreamAddHotword
  \/ StreamRm
  \/ Suspend
  \/ Resume
  \/ InitDeviceCb
  \/ SetHotwordPauseAtSuspend
  \/ HotwordDevBreaks
  \/ DevRecovers

HotwordSpec == HotwordInit /\ [][HotwordNext]_vars

ServerTypeOK ==
  /\ open_devs \subseteq Devs
  /\ \A p \in attached : p[2] \in open_devs
  /\ Len(init_retries) <= MaxRetries

(***************************************************************************)
(*                     PART IV - properties                                *)
(***************************************************************************)
\* Readers of the handler trace.
Where(tr, k, a) == {i \in DOMAIN tr : tr[i].k = k /\ tr[i].a = a}
CbCalls(tr, status) == Cardinality(Where(tr, "connection_cb", status))
MovesInto(tr, state) == Where(tr, "state", state)
MovesOutOf(tr, state) == {i \in DOMAIN tr : tr[i].k = "state" /\ tr[i].f = state}
Accepted(tr) == \E i \in DOMAIN tr : tr[i].k = "CLIENT_CONNECTED" /\ tr[i].b >= 0
WriteFailed(tr) == \E i \in DOMAIN tr : tr[i].k = "write_error"

\* States are entered in the order WAIT_FOR_SOCKET, WAIT_FOR_WRITABLE,
\* FIRST_MESSAGE, CONNECTED.
ConnectOrder(tr) ==
  \A i \in DOMAIN tr : tr[i].k = "state" =>
    /\ tr[i].a = "CONNECTED" => tr[i].f = "FIRST_MESSAGE"
    /\ tr[i].a = "FIRST_MESSAGE" => tr[i].f = "WAIT_FOR_WRITABLE"
    /\ tr[i].a = "WAIT_FOR_WRITABLE" => tr[i].f = "WAIT_FOR_SOCKET"

\* C1: a connect requested while the socket file is absent puts the control
\* task in WAIT_FOR_SOCKET, where it stays as long as the file is absent;
\* the states towards CONNECTED are entered in the order WAIT_FOR_WRITABLE,
\* FIRST_MESSAGE, CONNECTED; the handler that reads a CLIENT_CONNECTED with
\* an id >= 0 ends in CONNECTED and has invoked the connection callback with
\* CONNECTED exactly once (and no handler invokes it otherwise).
C1_ConnectSequence ==
  [][/\ (server_fd_state = "DISCONNECTED" /\ ~file
         /\ server_fd_state' # "DISCONNECTED")
          => server_fd_state' = "WAIT_FOR_SOCKET"
     /\ (server_fd_state = "WAIT_FOR_SOCKET" /\ ~file)
          => server_fd_state' = "WAIT_FOR_SOCKET"
     /\ ConnectOrder(trace')
     /\ (Accepted(trace') /\ ~WriteFailed(trace'))
          => /\ server_fd_state' = "CONNECTED"
             /\ MovesInto(trace', "CONNECTED") # {}
     /\ CbCalls(trace', "CONNECTED") =
          (IF server_connection_cb' /\ MovesInto(trace', "CONNECTED") # {}
           THEN 1 ELSE 0)]_vars

C1_Witness ==
  /\ server_fd_state = "CONNECTED"
  /\ Accepted(trace)
  /\ \E i \in MovesInto(trace, "CONNECTED") : trace[i].f = "FIRST_MESSAGE"
  /\ CbCalls(trace, "CONNECTED") = 1

\* C2: in every handler that moves the state to CONNECTED, a
\* REGISTER_NOTIFICATION has been sent for every notification type that has
\* a callback registered before the state moves, and the write of
\* server_event_fd and the CONNECTED connection callback come after all of
\* them.
C2_ReregisterBeforeConnected ==
  \A i \in MovesInto(trace, "CONNECTED") :
    /\ \A t \in observer_ops :
         \E j \in Where(trace, "REGISTER_NOTIFICATION", t) : j < i
    /\ \E w \in Where(trace, "eventfd_write", "") :
         /\ w > i
         /\ \A k \in DOMAIN trace :
              trace[k].k = "REGISTER_NOTIFICATION" => k < w
         /\ \A cb \in Where(trace, "connection_cb", "CONNECTED") : cb > w
    /\ server_connection_cb => CbCalls(trace, "CONNECTED") = 1

C2_Witness ==
  /\ MovesInto(trace, "CONNECTED") # {}
  /\ observer_ops = Range(NotifyTypes)
  /\ Cardinality({i \in DOMAIN trace :
                    trace[i].k = "REGISTER_NOTIFICATION"}) = Len(NotifyTypes)
  /\ CbCalls(trace, "CONNECTED") = 1

C4_ServerDrop ==
  [][(server_fd_state = "CONNECTED" /\ fw_events' = fw_events
      /\ MovesOutOf(trace', "CONNECTED") # {})
       => /\ Cardinality(MovesOutOf(trace', "CONNECTED")) = 1
          /\ \A i \in MovesOutOf(trace', "CONNECTED") :
               /\ trace'[i].a = "WAIT_FOR_SOCKET"
               /\ \A j \in DOMAIN trace' : trace'[j].k = "state" => j >= i
          /\ server_connection_cb
               => CbCalls(trace', "DISCONNECTED") = 1]_vars

C4_Witness ==
  /\ \E i \in MovesOutOf(trace, "CONNECTED") : trace[i].a = "WAIT_FOR_SOCKET"
  /\ CbCalls(trace, "DISCONNECTED") = 1
  /\ server_fd_state # "CONNECTED"


\* C5: no two streams in the client's list share an id, and the id of a
\* stream that is added is the one built from the client id and the first
\* stream index, starting at next_stream_id, whose id is not in the list.
C5_UniqueStreamIds ==
  /\ [](\A i, j \in DOMAIN streams : i # j => streams[i].id # streams[j].id)
  /\ [][Len(streams') > Len(streams)
          => \E k \in 0..(StreamIdxMod - 1) :
               /\ streams' = Append(streams,
                      [id |-> cras_get_stream_id(id, next_stream_id + k)])
               /\ \A j \in 0..(k - 1) :
                    cras_get_stream_id(id, next_stream_id + j)
                      \in StreamIds(streams)
               /\ next_stream_id' = (next_stream_id + k + 1) % StreamIdxMod
       ]_vars

\* A stream added after the index wrapped onto an id still in use.
C5_Witness ==
  /\ Len(streams) = 2
  /\ \E i, j \in DOMAIN trace :
       /\ trace[i].k = "stream_id_in_use"
       /\ trace[i].b = streams[1].id
       /\ trace[j].k = "CONNECT_STREAM"
       /\ trace[j].b = streams[2].id

(***************************************************************************)
(* Properties of the device list.                                          *)
(***************************************************************************)
OutputStreams == {i \in DOMAIN stream_list : stream_list[i].direction = "OUTPUT"}
\* The devices the audio thread plays stream sid on.
Att(att, sid) == {p[2] : p \in {q \in att : q[1] = sid}}

\* C6: whenever an output stream exists (and an output device is known,
\* which the fallback always is), some device of the output enabled list is
\* open.  Stated here in its weakest reading: streams are not suspended and
\* one of the output streams is not pinned, so that it plays on the enabled
\* devices.  The code does not keep it: a device that fails to open after
\* the fallback was disabled leaves the streams without an open device.
C6_PlaybackPreserved ==
  (~stream_list_suspended
   /\ \E i \in OutputStreams : ~stream_list[i].is_pinned)
  => \E d \in Range(enabled_devs["OUTPUT"]) : d \in open_devs

NcUpdates == {i \in DOMAIN slog : slog[i].k = "nc_blocked_state"}
NcIs(i, k) == i \in DOMAIN slog /\ slog[i].k = k
NcChange(i) == i \in NcUpdates /\ slog[i].a # slog[i].f
NcNotifies == sys_state.dsp_nc_supported /\ ~sys_state.bypass_block_nc

add_then_rm(s, dir, d, e1, e2) ==
  cras_iodev_list_rm_active_node(
    cras_iodev_list_add_active_node(s, dir, cras_make_node_id(d, 0), e1),
    dir, d, e2)

NonFallback(list, dir) == Range(list) \ {fallback_devs(dir)}

suspend_then_resume(s, e) == resume_devs(suspend_devs(s, e), e)

ReopenTrigger(s, d, st) ==
  /\ ~s.suspended
  /\ st.direction = "OUTPUT"
  /\ d \in Range(s.enabled["OUTPUT"])
  /\ needs_reopen(s, d, st)

\* C11: after the device was re-opened at a higher channel count because a
\* stream was added, removing that stream returns the device to the channel
\* count it had before.  The code does not do it: stream_removed_cb leaves
\* the device open at the higher count.
C11_ReopenRoundTrip ==
  \A st \in HighStreams, d \in SelectableDevs, e \in ServerOutcomes :
    (Len(stream_list) < MaxRStreams /\ ~st.is_pinned
     /\ ReopenTrigger(Server, d, st))
    => stream_list_rm(stream_list_add(Server, st, e), st).fmt[d]
         = dev_format[d]

EvIs(ev, i, k) == i \in DOMAIN ev /\ ev[i].k = k
\* The steps of the re-open of d for stream st, in order, in the log ev.
ReopenOrder(ev, d, st) ==
  \E i1 \in DOMAIN ev, i2 \in DOMAIN ev, i3 \in DOMAIN ev :
    \E i4 \in DOMAIN ev, i5 \in DOMAIN ev :
      /\ i1 < i2 /\ i2 < i3 /\ i3 < i4 /\ i4 < i5
      /\ EvIs(ev, i1, "DEV_ENABLE") /\ ev[i1].a = fallback_devs("OUTPUT")
      /\ EvIs(ev, i2, "DEV_CLOSE") /\ ev[i2].a = d
      /\ EvIs(ev, i3, "DEV_OPEN") /\ ev[i3].a = d
      /\ ev[i3].b = st.num_channels
      /\ EvIs(ev, i4, "STREAM_ATTACH") /\ d \in ev[i4].a /\ ev[i4].b = st.id
      /\ EvIs(ev, i5, "DEV_DISABLE") /\ ev[i5].a = fallback_devs("OUTPUT")

FloopInputs(f) == {f.pairs[i].input : i \in DOMAIN f.pairs}

\* The state after a request for params and the same request again.
request_floop_twice(f, params, ok1, ok2) ==
  cras_iodev_list_request_floop(
    cras_iodev_list_request_floop(f, params, TRUE, ok1).f, params, TRUE, ok2)

\* C13: with the feature enabled and room in the pair list, a request and
\* the same request again return the same input device index and leave
\* exactly one pair for those params; a request matching no pair appends
\* one new pair and returns its input index, which no existing pair has.
C13_FloopRequest ==
  floop_feature =>
    \A params \in FloopParams, ok2 \in BOOLEAN :
      /\ (FloopMatches(Floop, params) # {}
          \/ Len(floop_pair_list) < NUM_FLOOP_PAIRS_MAX)
         => /\ cras_iodev_list_request_floop(Floop, params, TRUE, TRUE).rc
                 >= MAX_SPECIAL_DEVICE_IDX
            /\ request_floop_twice(Floop, params, TRUE, ok2).rc
                 = cras_iodev_list_request_floop(Floop, params, TRUE, TRUE).rc
            /\ Cardinality(FloopMatches(
                 request_floop_twice(Floop, params, TRUE, ok2).f, params)) = 1
      /\ (FloopMatches(Floop, params) = {}
          /\ Len(floop_pair_list) < NUM_FLOOP_PAIRS_MAX)
         => /\ Len(cras_iodev_list_request_floop(
                     Floop, params, TRUE, TRUE).f.pairs)
                 = Len(floop_pair_list) + 1
            /\ SubSeq(cras_iodev_list_request_floop(
                        Floop, params, TRUE, TRUE).f.pairs,
                      1, Len(floop_pair_list)) = floop_pair_list
            /\ cras_iodev_list_request_floop(Floop, params, TRUE, TRUE).rc
                 \notin FloopInputs(Floop)

\* A request was answered from an existing pair while another pair and a
\* device of another kind exist, the index counter having wrapped.
C13_Witness ==
  /\ floop_feature
  /\ Len(floop_pair_list) >= 2
  /\ floop_ret.pairs_before = Len(floop_pair_list)
  /\ floop_ret.rc \in FloopInputs(Floop)
  /\ \E i \in DOMAIN floop_pair_list :
       /\ floop_pair_list[i].params = floop_ret.params
       /\ floop_pair_list[i].input = floop_ret.rc
  /\ OtherIdxs(Floop, "INPUT") # {}
  /\ \E i, k \in DOMAIN floop_pair_list :
       i < k /\ floop_pair_list[k].input < floop_pair_list[i].input

\* C14: when NUM_FLOOP_PAIRS_MAX pairs exist, a request whose params match
\* none of them returns -EAGAIN and changes neither the pair list nor the
\* device lists.
C14_FloopCapacity ==
  \A params \in FloopParams, alloc_ok \in BOOLEAN :
    (Len(floop_pair_list) = NUM_FLOOP_PAIRS_MAX
     /\ FloopMatches(Floop, params) = {})
    => /\ cras_iodev_list_request_floop(
            Floop, params, floop_feature, alloc_ok).rc = -EAGAIN
       /\ cras_iodev_list_request_floop(
            Floop, params, floop_feature, alloc_ok).f = Floop

\* The last request was refused for lack of room.
C14_Witness ==
  /\ Len(floop_pair_list) = NUM_FLOOP_PAIRS_MAX
  /\ floop_ret.rc = -EAGAIN
  /\ floop_ret.pairs_before = NUM_FLOOP_PAIRS_MAX
  /\ FloopMatches(Floop, floop_ret.params) = {}

(***************************************************************************)
(* Hotword streams across suspend and resume.                              *)
(***************************************************************************)
\* The one hotword stream of the list is attached to exactly the device d.
OneHotwordStreamOn(d) ==
  /\ Cardinality(HotwordStreamIdxs(Server)) = 1
  /\ Att(attached, find_hotword_stream(Server).id) = {d}

\* suspend_devs ran from a state where the hotword stream was on the real
\* hotword device and hotword_pause_at_suspend was set.
HotwordSuspendStep ==
  /\ ~stream_list_suspended /\ stream_list_suspended'
  /\ hotword_pause_at_suspend
  /\ OneHotwordStreamOn("HOTWORD")

\* resume_devs ran from a state where the hotword stream was on the empty
\* hotword device.
HotwordResumeStep ==
  /\ stream_list_suspended /\ ~stream_list_suspended'
  /\ OneHotwordStreamOn("EMPTY_HOTWORD")

\* C16: with one pinned hotword stream attached and hotword_pause_at_suspend
\* set, suspend moves the stream onto the empty hotword device and closes the
\* real hotword device, and the following resume moves it back onto the real
\* hotword device and closes the empty one; the stream keeps its id.
C16_HotwordSuspendResume ==
  [][/\ HotwordSuspendStep
        => /\ stream_list' = stream_list
           /\ Att(attached', find_hotword_stream(Server).id)
                = {"EMPTY_HOTWORD"}
           /\ "HOTWORD" \notin open_devs'
           /\ "EMPTY_HOTWORD" \in open_devs'
     /\ HotwordResumeStep
        => /\ stream_list' = stream_list
           /\ Att(attached', find_hotword_stream(Server).id) = {"HOTWORD"}
           /\ "EMPTY_HOTWORD" \notin open_devs'
           /\ "HOTWORD" \in open_devs']_vars

(***************************************************************************)
(* The audio task of a client stream.                                      *)
(***************************************************************************)
\* The last step was an iteration of the audio task of a stream.
AudStepped == aud_last.sid # -1

\* C12: when the user callback returns a negative value, the audio task
\* writes STREAM_EOF for its stream to the stream pipe in the iteration that
\* handles the audio message, and the control-loop iteration that reads the
\* record leaves no stream with that id in the stream list.
C12_StreamEof ==
  [][/\ (aud_last'.sid # -1 /\ aud_last'.cb_rc < 0)
        => stream_pipe'
             = Append(stream_pipe, StreamMsg(aud_last'.sid, "STREAM_EOF"))
     /\ (stream_pipe # <<>> /\ stream_pipe' = Tail(stream_pipe))
        => Head(stream_pipe).stream_id \notin StreamIds(streams')]_vars

\* The callback of a stream has just answered EOF: the record is in the
\* pipe, the stream still in the list and its audio task still running.
C12_Witness ==
  /\ AudStepped
  /\ aud_last.cb_rc < 0
  /\ aud_last.msg.id = "REQUEST_DATA"
  /\ stream_pipe = <<StreamMsg(aud_last.sid, "STREAM_EOF")>>
  /\ aud_last.sid \in StreamIds(streams)
  /\ aud_threads[aud_last.sid].alive

\* C17: for an OUTPUT stream every REQUEST_DATA{n} the audio task reads
\* invokes the user callback with min(n, cb_threshold) frames, never more
\* than cb_threshold.
C17_CallbackFrames ==
  (AudStepped /\ aud_last.msg.id = "REQUEST_DATA" /\ aud_last.msg.full
   /\ aud_last.direction = "OUTPUT")
  => /\ aud_last.cb_frames = Min2(aud_last.msg.frames, CbThreshold)
     /\ aud_last.cb_frames <= CbThreshold

\* A request for more frames than cb_threshold was cut to cb_threshold.
C17_Witness ==
  /\ AudStepped
  /\ aud_last.msg.id = "REQUEST_DATA" /\ aud_last.msg.full
  /\ aud_last.direction = "OUTPUT"
  /\ aud_last.msg.frames > CbThreshold
  /\ aud_last.cb_frames = CbThreshold

\* C20: when the audio task reads a message whose id is neither
\* REQUEST_DATA nor DATA_READY, or fewer bytes than one message, the task
\* exits with an error and the control task is told to remove the stream.
C20_AudioReadError ==
  (AudStepped
   /\ (~aud_last.msg.full
       \/ aud_last.msg.id \notin {"REQUEST_DATA", "DATA_READY"}))
  => /\ aud_last.exit # "none"
     /\ ~aud_threads[aud_last.sid].alive
     /\ \E i \in DOMAIN stream_pipe : stream_pipe[i].stream_id = aud_last.sid

\* What a caller of add_stream may conclude from the value returned for a
\* client in state c: 0 exactly when the stream is in the list and its
\* CONNECT_STREAM was sent, a negative value otherwise.
AddStreamReturnOk(c, r) ==
  /\ r.rc = 0 =>
       /\ Len(r.c.streams) = Len(c.streams) + 1
       /\ r.c.trace # <<>>
       /\ r.c.trace[Len(r.c.trace)].k = "CONNECT_STREAM"
  /\ r.rc # 0 => (r.rc < 0 /\ r.c.streams = c.streams)
  /\ r.c.streams = c.streams => r.rc < 0

\* C19: cras_client_add_stream and cras_client_add_pinned_stream return 0
\* only when the stream was added to the stream list and its CONNECT_STREAM
\* message was sent; every failure, a failed send of the connect message
\* included, returns a negative error code.
C19_AddStreamReturn ==
  Len(streams) < MaxStreams =>
    \A e \in AddStreamOutcomes, config_ok \in BOOLEAN :
      AddStreamReturnOk(Client,
        cras_client_send_add_stream_command_message(Client, config_ok, e))

(***************************************************************************)
(* The blocking connect calls.                                             *)
(***************************************************************************)
\* The step is one of the caller inside a blocking connect call.
CallerStep == blocking.pc # "idle" /\ blocking' # blocking

\* The step leaves the socket state machine and the descriptors of the
\* control loop as they are.
SocketUntouched ==
  UNCHANGED <<server_fd, server_fd_state, conn, inbox, fw_events,
              sock_file_exists, id>>

\* C18 as stated: no step of the caller inside cras_client_connect or
\* cras_client_connect_timeout advances the socket state machine or
\* dispatches the socket or file-watch descriptors.
C18_Original == [][CallerStep => SocketUntouched]_vars

\* C18 (amended): when the control task runs and accepts the connect
\* command, the blocking calls only poll server_event_fd; only when the
\* control task does not run, or its reply to the command is an error, does
\* connect_to_server run server_connect and the dispatch on the caller's
\* thread.
C18_BlockingConnect ==
  [][/\ blocking'.pc = "wait" => ~blocking'.caller_ran
     /\ blocking'.caller_ran
          => (~blocking'.thread \/ blocking'.async_rc \notin {"OK", "none"})
     /\ (CallerStep /\ blocking.pc = "wait") => SocketUntouched
     /\ (CallerStep /\ ~SocketUntouched)
          => (~blocking.thread \/ blocking.async_rc \notin {"OK", "none"})]_vars

\* A blocking call that waited for the control task has returned with the
\* client connected, the caller's thread having dispatched nothing.
C18_Witness ==
  /\ blocking.pc = "idle"
  /\ blocking.thread /\ blocking.async_rc = "OK"
  /\ ~blocking.caller_ran
  /\ server_fd_state = "CONNECTED"
  /\ server_event_fd # 0

(***************************************************************************)
(* The error delay and the first message.                                  *)
(***************************************************************************)
\* The step is the dispatch of the expired timer of ERROR_DELAY.
TimerExpires ==
  /\ server_fd_state = "ERROR_DELAY"
  /\ server_fd = "timer"
  /\ fw_events' = fw_events

\* The step is the file-watch callback for the deletion of the socket file.
FileDeletedCallback ==
  /\ fw_events # <<>>
  /\ Head(fw_events) = "DELETED"
  /\ fw_events' = Tail(fw_events)

\* C24 as stated: every move out of ERROR_DELAY is made by the dispatch of
\* the expired timer and enters WAIT_FOR_SOCKET.
C24_Original ==
  [][\A i \in MovesOutOf(trace', "ERROR_DELAY") :
       trace'[i].a = "WAIT_FOR_SOCKET" /\ TimerExpires]_vars

\* C24 (amended): ERROR_DELAY is left for WAIT_FOR_SOCKET only by the
\* dispatch of its expired timer, as the first move of that dispatch.  Every
\* other move out of ERROR_DELAY enters DISCONNECTED: in the callback for
\* the deletion of the socket file, which then restarts the connect through
\* WAIT_FOR_SOCKET, or when the timer could not be set up, where no timer is
\* left and the connection callback, if set, is told FAILED.
C24_ErrorDelayExit ==
  [][\A i \in MovesOutOf(trace', "ERROR_DELAY") :
       \/ /\ trace'[i].a = "WAIT_FOR_SOCKET"
          /\ TimerExpires
          /\ i = 1
       \/ /\ trace'[i].a = "DISCONNECTED"
          /\ \/ /\ FileDeletedCallback
                /\ i < Len(trace')
                /\ trace'[i + 1] = Ev("state", "WAIT_FOR_SOCKET",
                                      "DISCONNECTED", 0)
             \/ /\ ~FileDeletedCallback
                /\ server_connection_cb'
                     => \E j \in Where(trace', "connection_cb", "FAILED") :
                          j > i]_vars

\* The timer of ERROR_DELAY has expired and the handler has moved on.
C24_Witness ==
  /\ trace # <<>>
  /\ trace[1] = Ev("state", "WAIT_FOR_SOCKET", "ERROR_DELAY", 0)
  /\ server_fd # "timer"

\* The step is the dispatch of the server socket in FIRST_MESSAGE with a
\* message to read.
FirstMessageRead ==
  /\ server_fd_state = "FIRST_MESSAGE"
  /\ inbox # <<>>
  /\ inbox' # inbox
  /\ fw_events' = fw_events

\* C25: in FIRST_MESSAGE the state becomes CONNECTED only when the handling
\* of the first message has set a client id >= 0; a read error, a malformed
\* message or a first message that sets no client id moves the state to
\* ERROR_DELAY, and the connection callback is not told CONNECTED.
C25_FirstMessage ==
  [][/\ \A i \in MovesInto(trace', "CONNECTED") :
          /\ trace'[i].f = "FIRST_MESSAGE"
          /\ \E j \in 1..(i - 1) :
               trace'[j].k = "CLIENT_CONNECTED" /\ trace'[j].b >= 0
     /\ (FirstMessageRead /\ ~Accepted(trace'))
          => /\ \E i \in MovesInto(trace', "ERROR_DELAY") :
                  trace'[i].f = "FIRST_MESSAGE"
             /\ MovesInto(trace', "CONNECTED") = {}
             /\ CbCalls(trace', "CONNECTED") = 0
             /\ server_fd_state' # "CONNECTED"]_vars

\* A CLIENT_CONNECTED that carries no valid id was the first message.
C25_Witness ==
  /\ \E j \in DOMAIN trace : trace[j].k = "CLIENT_CONNECTED" /\ trace[j].b < 0
  /\ \E i \in MovesInto(trace, "ERROR_DELAY") : trace[i].f = "FIRST_MESSAGE"
  /\ server_connection_cb
  /\ id = -1

(***************************************************************************)
(* Init retries.                                                           *)
(***************************************************************************)
\* The retry records pending for device d.
Pending(s, d) == {i \in DOMAIN s.retries : s.retries[i] = d}

\* The init the retry callback makes for the oldest record.
retry_init(s, e) ==
  init_and_attach_streams([s EXCEPT !.retries = Tail(@)], Head(s.retries), e)

\* enable_device for a device that is not enabled, when its init fails,
\* leaves one retry record for the device.
EnableSchedulesRetry(s, d, e) ==
  (~cras_iodev_list_dev_is_enabled(s, d) /\ enable_device(s, d, e).rc = "ERR")
  => Cardinality(Pending(enable_device(s, d, e).s, d)) = 1

NodeIds ==
  {cras_make_node_id(d, 0) : d \in {"SPEAKER", "USB_OUT", "MIC", "NONE"}}
    \cup {cras_make_node_id("SPEAKER", 1)}

\* Capture streams: a default one and one pinned to the microphone.
InputStreams ==
  {[st EXCEPT !.direction = "INPUT",
              !.pinned_dev_idx = IF st.is_pinned THEN "MIC" ELSE "NO_DEVICE"] :
     st \in NewStreams}

StreamAddInput ==
  /\ Len(stream_list) < MaxRStreams
  /\ \E st \in InputStreams :
       ServerStep({stream_list_add(Server, st, e) : e \in ServerOutcomes})

\* The specification of the idle timer selects the first node of a device.
SelectNode ==
  \E dir \in Directions,
     node_id \in {n \in NodeIds : node_index_of(n) = 0} :
    ServerStep({cras_iodev_list_select_node(Server, dir, node_id, e) :
                e \in ServerOutcomes})

\* The node calls of the specification that breaks devices name the output
\* nodes only.
OutputNodeIds == {n \in NodeIds : dev_index_of(n) # "MIC"}

SelectOutputNode ==
  \E node_id \in OutputNodeIds :
    ServerStep({cras_iodev_list_select_node(Server, "OUTPUT", node_id, e) :
                e \in ServerOutcomes})

AddOutputNode ==
  \E node_id \in OutputNodeIds :
    ServerStep({cras_iodev_list_add_active_node(Server, "OUTPUT", node_id, e) :
                e \in ServerOutcomes})

DisableDev ==
  \E d \in SelectableDevs, force_close \in BOOLEAN :
    ServerStep({cras_iodev_list_disable_dev(Server, d, force_close, e) :
                e \in ServerOutcomes})

\* A client adds a stream of a kind it does not have yet.
StreamAddOnce ==
  \E st \in NewStreams :
    /\ \A i \in DOMAIN stream_list : stream_list[i].is_pinned # st.is_pinned
    /\ ServerStep({stream_list_add(Server, st, e) : e \in ServerOutcomes})

\* Playback and capture streams come and go while nodes are selected and
\* the idle timer fires.
IdleNext ==
  \/ StreamAdd
  \/ StreamAddInput
  \/ StreamRm
  \/ SelectNode
  \/ IdleDevCheck

IdleSpec == RoutingInit /\ [][IdleNext]_vars

\* Output nodes are selected, added and disabled while the USB device
\* breaks and recovers.
NodeNext ==
  \/ StreamAddOnce
  \/ StreamRm
  \/ SelectOutputNode
  \/ AddOutputNode
  \/ DisableDev
  \/ InitDeviceCb
  \/ DevBreaks
  \/ DevRecovers

NodeSpec == RoutingInit /\ [][NodeNext]_vars

(***************************************************************************)
(* The idle close of the devices a direction's last stream leaves.         *)
(***************************************************************************)
HasNormalStream(list, dir) ==
  \E i \in DOMAIN list : list[i].direction = dir /\ ~list[i].is_pinned

\* This step removes the last stream of the direction that is not pinned.
LastNormalStreamRemoved(dir) ==
  /\ HasNormalStream(stream_list, dir)
  /\ ~HasNormalStream(stream_list', dir)

\* The enabled devices of the direction no stream is pinned to, after the
\* step.
UnpinnedEnabledAfter(dir) ==
  {d \in Range(enabled_devs'[dir]) :
     ~\E i \in DOMAIN stream_list' :
        stream_list'[i].is_pinned /\ stream_list'[i].pinned_dev_idx = d}

\* This step is the idle timer: nothing is called and a device closes.
IdleTimerFires ==
  /\ stream_list' = stream_list
  /\ enabled_devs' = enabled_devs
  /\ slog' = <<>>
  /\ open_devs' # open_devs

\* C27: when the last stream of a direction that is not pinned is removed,
\* every enabled device of that direction without pinned streams is closed
\* in that step if it is an input device, and stays open with its idle
\* timeout set if it is an output device; the idle timer then closes exactly
\* the open devices whose timeout is still set, and a device a new stream
\* is attached to has no timeout set any more.
C27_IdleClose ==
  [][/\ LastNormalStreamRemoved("INPUT")
        => \A d \in UnpinnedEnabledAfter("INPUT") : d \notin open_devs'
     /\ LastNormalStreamRemoved("OUTPUT")
        => \A d \in UnpinnedEnabledAfter("OUTPUT") :
             /\ d \in idle_devs'
             /\ d \in open_devs => d \in open_devs'
     /\ IdleTimerFires => open_devs' = open_devs \ idle_devs
     /\ \A p \in attached' :
          p[1] \notin StreamIds(stream_list) => p[2] \notin idle_devs']_vars

\* The speaker waits open for its idle timeout after the last playback
\* stream left, and the microphone is enabled and already closed.
C27_Witness ==
  /\ "SPEAKER" \in idle_devs \cap open_devs
  /\ ~HasNormalStream(stream_list, "OUTPUT")
  /\ "MIC" \in Range(enabled_devs["INPUT"])
  /\ "MIC" \notin open_devs
  /\ ~HasNormalStream(stream_list, "INPUT")

(***************************************************************************)
(* Node selection.                                                         *)
(***************************************************************************)
\* The output nodes of devices the list has.
ExistingOutputNodeIds ==
  {n \in OutputNodeIds : find_dev(dev_index_of(n)) # "NULL"}

\* Opening the device fails: it is closed, it cannot open and a stream
\* waits to be attached to it.
EnableFails(s, d) ==
  /\ s.broken.dev = d
  /\ d \notin s.open
  /\ \E i \in DOMAIN s.streams : can_attach(s.streams[i], d, TRUE)

\* The enabled output devices as C28 states them, s being the state before
\* the call and r the state after it.
SelectedAsStated(s, r, d) ==
  IF EnableFails(s, d)
  THEN fallback_devs("OUTPUT") \in Range(r.enabled["OUTPUT"])
  ELSE r.enabled["OUTPUT"] = <<d>>

UpdateCalls(log, n) ==
  {i \in DOMAIN log : /\ log[i].k = "update_active_node"
                      /\ log[i].a = dev_index_of(n)
                      /\ log[i].b = node_index_of(n)}
ActiveNodeNotes(log, dir) ==
  {i \in DOMAIN log : log[i].k = "ACTIVE_NODE_CHANGED" /\ log[i].a = dir}

\* The call did both things C29 names.
UpdatedAndNotified(r, dir, n) ==
  /\ UpdateCalls(r.log, n) # {}
  /\ Len(r.log) \in ActiveNodeNotes(r.log, dir)
  /\ r.node[dev_index_of(n)] = node_index_of(n)

\* C29 as stated: every add_active_node naming an existing device of the
\* direction updates the active node and notifies.
C29_Original ==
  \A n \in ExistingOutputNodeIds, e \in ServerOutcomes :
    UpdatedAndNotified(
      cras_iodev_list_add_active_node(Server, "OUTPUT", n, e), "OUTPUT", n)

\* C29: add_active_node(dir, node_id) naming an existing device of dir that
\* is not enabled, or that is enabled with another active node, calls the
\* backend's update_active_node for the node and ends with the
\* active-node-changed notification of dir; a call naming the active node
\* of a device that is already enabled changes nothing and calls neither.
C29_AddActiveNode ==
  \A n \in ExistingOutputNodeIds, e \in ServerOutcomes :
    IF new_node_already_enabled(Server, "OUTPUT", n)
    THEN cras_iodev_list_add_active_node(Server, "OUTPUT", n, e) = Server
    ELSE UpdatedAndNotified(
           cras_iodev_list_add_active_node(Server, "OUTPUT", n, e),
           "OUTPUT", n)

\* The last call added the speaker's second node while the speaker was
\* enabled with its first: it was disabled by force, which notifies, and
\* enabled again; naming the second node once more now does nothing.
C29_Witness ==
  /\ slog # <<>>
  /\ 1 \in ActiveNodeNotes(slog, "OUTPUT")
  /\ Cardinality(UpdateCalls(slog, cras_make_node_id("SPEAKER", 1))) = 2
  /\ new_node_already_enabled(Server, "OUTPUT",
                              cras_make_node_id("SPEAKER", 1))

(***************************************************************************)
(* Disabling a device that has pinned streams.                             *)
(***************************************************************************)
\* The streams the audio thread plays to the device.
StreamsOn(att, d) == {p[1] : p \in {q \in att : q[2] = d}}
PinnedIds(list) == {list[i].id : i \in {k \in DOMAIN list : list[k].is_pinned}}

\* An enabled device with at least one stream pinned to it.
EnabledWithPinned(s, d) ==
  cras_iodev_list_dev_is_enabled(s, d) /\ stream_list_has_pinned_stream(s, d)

\* r is what a soft disable of d made of s.
SoftDisabled(s, r, d) ==
  /\ StreamsOn(r.attached, d)
       = StreamsOn(s.attached, d) \cap PinnedIds(s.streams)
  /\ d \in s.open => d \in r.open
  /\ r.streams = s.streams

\* r is what a forced disable of d made of s.
ForceDisabled(s, r, d) ==
  /\ StreamsOn(r.attached, d) = {}
  /\ d \notin r.open
  /\ r.streams = s.streams

\* C30: a soft disable of an enabled device that has a pinned stream
\* detaches the streams on it that are not pinned and leaves the device open
\* with its pinned streams attached; a forced disable detaches every stream
\* from the device and closes it.
C30_Disable ==
  \A d \in SelectableDevs, e \in ServerOutcomes :
    EnabledWithPinned(Server, d)
    => /\ SoftDisabled(Server, disable_device(Server, d, FALSE, e), d)
       /\ ForceDisabled(Server, disable_device(Server, d, TRUE, e), d)
       /\ SoftDisabled(Server,
                       cras_iodev_list_disable_dev(Server, d, FALSE, e), d)
       /\ ForceDisabled(Server,
                        cras_iodev_list_disable_dev(Server, d, TRUE, e), d)

\* The USB device is enabled and open with a pinned stream and another
\* stream on it; a soft disable takes one of them off and a forced one both.
C30_Witness ==
  /\ EnabledWithPinned(Server, "USB_OUT")
  /\ "USB_OUT" \in open_devs
  /\ Cardinality(StreamsOn(attached, "USB_OUT")) = 2
  /\ \A e \in ServerOutcomes :
       /\ Cardinality(StreamsOn(
            disable_device(Server, "USB_OUT", FALSE, e).attached,
            "USB_OUT")) = 1
       /\ "USB_OUT" \notin disable_device(Server, "USB_OUT", TRUE, e).open

(***************************************************************************)
(* Stream errors.                                                          *)
(***************************************************************************)
\* This step is the control task reading a record of the stream pipe.
StreamMessageHandled == stream_pipe # <<>> /\ stream_pipe' = Tail(stream_pipe)

\* The streams whose STREAM_CONNECTED message failed in this step.
ConnectFailed ==
  {sid \in DOMAIN aud_threads :
     /\ aud_threads[sid].state = "WARMUP"
     /\ sid \in DOMAIN aud_threads'
     /\ aud_threads'[sid].state = "STOP"}

\* The step called err_cb for the stream and took it off the stream list,
\* and left the other streams on it.
ReportedAndRemoved(sid) ==
  /\ \E i \in DOMAIN trace' : trace'[i].k = "err_cb" /\ trace'[i].b = sid
  /\ sid \notin StreamIds(streams')
  /\ StreamIds(streams') = StreamIds(streams) \ {sid}

\* C21: every stream error (the user callback returned a negative value and
\* the audio task wrote STREAM_EOF, or the STREAM_CONNECTED message failed)
\* is reported through err_cb(stream_id, code) and the stream is removed
\* from the stream list, the other streams staying.
C21_StreamError ==
  [][/\ StreamMessageHandled
        => ReportedAndRemoved(Head(stream_pipe).stream_id)
     /\ \A sid \in ConnectFailed : ReportedAndRemoved(sid)]_vars

(***************************************************************************)
(* Reads of the server state.                                              *)
(***************************************************************************)
\* This step is end_server_state_read in cras_client_get_input_devices.
ReadEnds == state_reader.pc = "end" /\ state_reader'.pc # "end"

\* C22: a read of the server state between begin_server_state_read and
\* end_server_state_read is accepted only if update_count was even at the
\* begin and has the same value at the end, and the accepted snapshot is
\* the state as the update with that count left it, no part of it written
\* by a later update; in every other case the reader starts the whole read
\* again.
C22_ServerStateRead ==
  [][ReadEnds
     => IF state_reader.version % 2 = 0
           /\ shm_state.update_count = state_reader.version
        THEN /\ state_reader'.pc = "done"
             /\ state_reader'.devs = state_reader.version \div 2
             /\ state_reader'.nodes = state_reader.version \div 2
        ELSE state_reader'.pc = "begin"]_vars

\* A snapshot of a state the server had updated was accepted, and the
\* server has begun another update since.
C22_Witness ==
  /\ state_reader.pc = "done"
  /\ state_reader.version >= 2
  /\ shm_state.update_count > state_reader.version

(***************************************************************************)
(* Commands and their replies.                                             *)
(***************************************************************************)
\* This step is the control task handling one command.
CommandHandled == command_pipe # <<>> /\ command_pipe' = Tail(command_pipe)

\* The application threads whose send_command_message returns in this step.
Returning ==
  {t \in AppThreads : app_threads[t].pc = "wait" /\ app_threads'[t].pc = "idle"}

\* C23: the control task writes exactly one reply for every command it
\* reads from the command pipe, and every reply is read by the application
\* thread that sent the command, also when two threads send commands at the
\* same time.
C23_CommandReply ==
  [][/\ CommandHandled
        => Len(command_reply_pipe') = Len(command_reply_pipe) + 1
     /\ \A t \in Returning : app_threads'[t].reply.issuer = t]_vars

(***************************************************************************)
(* The pending init retries of one device.                                 *)
(***************************************************************************)
OneRetryPerDevice(s) == \A d \in Devs : Cardinality(Pending(s, d)) <= 1

\* The device list after each call that can schedule or cancel a retry.
RetryCalls(s, e) ==
  {stream_list_add(s, st, e) : st \in NewStreams}
    \cup {cras_iodev_list_add_active_node(s, direction(d),
                                          cras_make_node_id(d, 0), e) :
            d \in SelectableDevs}
    \cup {cras_iodev_list_rm_active_node(s, direction(d), d, e) :
            d \in SelectableDevs}
    \cup {resume_devs(s, e), suspend_devs(s, e)}
    \cup (IF s.retries = <<>> THEN {} ELSE {init_device_cb(s, e)})

\* A retry is pending for the USB device and the next stream fails to open
\* it again.
RetryScheduledAgain(s, e) ==
  /\ s.retries = <<"USB_OUT">>
  /\ \E st \in NewStreams :
       /\ init_device(s, "USB_OUT", st, e).rc # "OK"
       /\ Pending(stream_list_add(s, st, e), "USB_OUT") # {}

\* C40: the pending init-retry list holds at most one retry record for any
\* device index, now and after every call that schedules or cancels
\* retries.
C40_OneRetryPerDevice ==
  /\ OneRetryPerDevice(Server)
  /\ \A e \in ServerOutcomes :
       \A r \in RetryCalls(Server, e) : OneRetryPerDevice(r)

\* A retry is pending for the broken USB device when the open of the
\* device fails once more and schedules the next retry.
C40_Witness ==
  /\ "USB_OUT" \in Range(enabled_devs["OUTPUT"])
  /\ \E e \in ServerOutcomes : RetryScheduledAgain(Server, e)

(***************************************************************************)
(* The idle-check timers.                                                  *)
(***************************************************************************)
\* The timer manager drops a timer when it calls the timer's callback.
timer_fired(s) == [s EXCEPT !.tm.armed = @ - 1]

IdleOutputDevs(s) ==
  {d \in Range(s.enabled["OUTPUT"]) : d \in s.idle}

\* idle_dev_check called by its timer, after the idle timeouts (expired) or
\* before them: devices past their timeout are closed, and a timer is
\* created when a device is left waiting for its timeout.
idle_dev_check_cb(s, expired) ==
  IF expired THEN idle_dev_check(timer_fired(s), s.enabled["OUTPUT"], 1)
  ELSE IF IdleOutputDevs(s) # {} THEN create_idle_timer(timer_fired(s))
  ELSE timer_fired(s)

IdleTimerCb ==
  /\ idle_timers.armed > 0
  /\ \E expired \in BOOLEAN :
       ServerStep({idle_dev_check_cb(Server, expired)})

\* Playback streams come and go and output nodes are added while the idle
\* timers run.
TimerInit == RoutingStart /\ IdleTimersOn /\ WaitOff

TimerNext ==
  \/ StreamAdd
  \/ StreamRm
  \/ AddActiveNode
  \/ IdleTimerCb

TimerSpec == TimerInit /\ [][TimerNext]_vars

\* C36: at most one idle-check timer is armed at any time.
C36_OneIdleTimer == idle_timers.armed <= 1

(***************************************************************************)
(* The order of the connection status callbacks.                           *)
(***************************************************************************)
\* The status the callback saw last, followed by the statuses the handler
\* of this step passes to it.
ReportedBy(before, tr) ==
  <<before>> \o [i \in DOMAIN ConnectionCbs(tr) |-> ConnectionCbs(tr)[i].a]

Alternates(seq) ==
  \A i \in 1..(Len(seq) - 1) :
    ~(seq[i] = "CONNECTED" /\ seq[i + 1] = "CONNECTED")

\* C37: the connection status callback is not invoked with CONNECTED twice
\* without an invocation with DISCONNECTED or FAILED in between.
C37_CallbacksAlternate ==
  [][Alternates(ReportedBy(reported_status, trace'))]_vars

(***************************************************************************)
(* What the CONNECTED state stands for.                                    *)
(***************************************************************************)
\* C38: between the dispatches of the control loop the socket state is
\* CONNECTED exactly when the client id is known (>= 0), the server state
\* region is mapped and the eventfd holds a value other than zero.
C38_ConnectedMeans ==
  server_fd_state = "CONNECTED"
    <=> (id >= 0 /\ server_state /\ server_event_fd # 0)

\* The client has read its id, mapped the server state and signalled the
\* eventfd, and stands in CONNECTED.
C38_Witness ==
  /\ server_fd_state = "CONNECTED"
  /\ id >= 0
  /\ server_state
  /\ server_event_fd # 0
  /\ \E i \in DOMAIN trace : trace[i].k = "CLIENT_CONNECTED"

(***************************************************************************)
(* A refused connect.                                                      *)
(***************************************************************************)
\* poll() reports the file-watch descriptor, the server descriptor.
SockFileWaitReady == thread_running /\ fw_events # <<>>
ServerFdPollReady == thread_running /\ fw_events = <<>> /\ ServerFdReady # {}

\* The control loop handles a descriptor that poll() keeps reporting as
\* ready (weak fairness of the two handlers, with their enabling conditions
\* written out), and the kernel completes a connect in progress.
ClientLiveSpec ==
  /\ ClientInit
  /\ [][ClientNext]_vars
  /\ ([]<>(~SockFileWaitReady) \/ []<><<SockFileWaitDispatch>>_vars)
  /\ ([]<>(~ServerFdPollReady) \/ []<><<ServerFdDispatch>>_vars)
  /\ WF_vars(ConnectCompletes)

\* connect() was refused: the socket is closed and the state kept.
Refused == server_fd_state = "WAIT_FOR_WRITABLE" /\ server_fd = "none"

\* C39: a client left in WAIT_FOR_WRITABLE by a refused connect, whose
\* server now accepts connections on the socket file, reaches CONNECTED
\* unless the file is created or deleted or the server stops accepting.
C39_RefusedThenConnected ==
  (Refused /\ listening)
    ~> (server_fd_state = "CONNECTED" \/ fw_events # <<>> \/ ~listening)

(***************************************************************************)
(* Captured data and the frames the shm holds.                             *)
(***************************************************************************)
\* The last step was the audio task of a capture stream handling DATA_READY.
CaptureDataReady ==
  aud_last.msg.id = "DATA_READY" /\ aud_last.msg.full
    /\ aud_last.direction = "INPUT"

\* The user callback was called; frames were marked as read
\* (complete_capture_read_current); the server was sent DATA_CAPTURED with
\* the frames or the error of the callback (send_capture_reply).
Delivered == aud_last.cb_frames >= 0
ReadAdvanced == aud_last.cb_rc > 0
CaptureReplied == aud_last.cb_rc # 0

WrongFdCount ==
  {sid \in DOMAIN aud_threads :
     /\ \E i \in DOMAIN trace' :
          trace'[i].k = "STREAM_CONNECTED" /\ trace'[i].b = sid
     /\ \E i \in DOMAIN trace' : trace'[i].k = "num_fds" /\ trace'[i].b # 2}

\* C33: a STREAM_CONNECTED message for a stream of the list that does not
\* carry exactly two descriptors makes the handler call the stream's err_cb
\* with a negative code, and the stream's audio task is stopped without
\* having entered RUNNING.
C33_WrongFdCount ==
  [][\A sid \in WrongFdCount :
       /\ \E i \in DOMAIN trace' :
            trace'[i].k = "err_cb" /\ trace'[i].b = sid
       /\ aud_threads[sid].state # "RUNNING"
       /\ aud_threads'[sid].state = "STOP"]_vars

(***************************************************************************)
(* Messages from a client: ccr_handle_message_from_client.                 *)
(***************************************************************************)
\* The messages of the model: the node and suspend messages, and one id the
\* switch has no case for.  A message without payload has no length of its
\* own to check: its frame is checked when it is read from the socket.
ClientMessageIds ==
  {"CRAS_SERVER_SELECT_NODE", "CRAS_SERVER_ADD_ACTIVE_NODE",
   "CRAS_SERVER_RM_ACTIVE_NODE", "CRAS_SERVER_SUSPEND", "CRAS_SERVER_RESUME",
   "CRAS_SERVER_UNKNOWN"}
HasPayload(msg_id) ==
  msg_id \in {"CRAS_SERVER_SELECT_NODE", "CRAS_SERVER_ADD_ACTIVE_NODE",
              "CRAS_SERVER_RM_ACTIVE_NODE"}
ClientMessages ==
  {msg \in [id : ClientMessageIds, len_valid : BOOLEAN,
            direction : Directions \cup {"CRAS_STREAM_UNDEFINED"},
            dev : SelectableDevs] :
     ~HasPayload(msg.id) =>
       msg.len_valid /\ msg.direction = "OUTPUT" /\ msg.dev = "SPEAKER"}

direction_valid(dir) == dir \in Directions
\* MSG_LEN_VALID: the length of the message fits the type of its id.
MSG_LEN_VALID(msg) == msg.len_valid
\* None of the messages of the model carries a descriptor.
rclient_validate_message_fds(msg, num_fds) ==
  IF num_fds = 0 THEN 0 ELSE 0 - EINVAL

\* cras_system_set_suspended, as the device list observes it.
cras_system_set_suspended(s, suspend, e) ==
  IF s.suspended = suspend THEN s
  ELSE IF suspend THEN suspend_devs(s, e)
  ELSE resume_devs(s, e)

\* The switch on msg->id.
ccr_dispatch(s, msg, e) ==
  CASE msg.id = "CRAS_SERVER_SELECT_NODE" ->
         IF ~MSG_LEN_VALID(msg) \/ ~direction_valid(msg.direction)
         THEN SR(s, 0 - EINVAL)
         ELSE SR(cras_iodev_list_select_node(
                   s, msg.direction, cras_make_node_id(msg.dev, 0), e), 0)
    [] msg.id = "CRAS_SERVER_ADD_ACTIVE_NODE" ->
         IF ~MSG_LEN_VALID(msg) \/ ~direction_valid(msg.direction)
         THEN SR(s, 0 - EINVAL)
         ELSE SR(cras_iodev_list_add_active_node(
                   s, msg.direction, cras_make_node_id(msg.dev, 0), e), 0)
    [] msg.id = "CRAS_SERVER_RM_ACTIVE_NODE" ->
         IF ~MSG_LEN_VALID(msg) \/ ~direction_valid(msg.direction)
         THEN SR(s, 0 - EINVAL)
         ELSE SR(cras_iodev_list_rm_active_node(
                   s, msg.direction, msg.dev, e), 0)
    [] msg.id = "CRAS_SERVER_SUSPEND" ->
         SR(cras_system_set_suspended(s, TRUE, e), 0)
    [] msg.id = "CRAS_SERVER_RESUME" ->
         SR(cras_system_set_suspended(s, FALSE, e), 0)
    [] OTHER -> SR(s, 0)

ccr_handle_message_from_client(s, msg, num_fds, e) ==
  IF rclient_validate_message_fds(msg, num_fds) < 0
  THEN SR(s, rclient_validate_message_fds(msg, num_fds))
  ELSE ccr_dispatch(s, msg, e)

\* The message read from the socket and what the handler returned for it,
\* as the log of the step shows them.
MessageRead(s, msg, num_fds) ==
  SLog(s, "message_from_client", msg.id,
       IF MSG_LEN_VALID(msg) THEN "" ELSE "length", num_fds)
MessageReturned(r) == SLog(r.s, "return", "", "", r.rc)

MessageFromClient ==
  \E msg \in ClientMessages, num_fds \in 0..1 :
    ServerStep({MessageReturned(
                  ccr_handle_message_from_client(
                    MessageRead(Server, msg, num_fds), msg, num_fds, e)) :
                e \in ServerOutcomes})

MessageInit == RoutingInit
MessageNext == MessageFromClient
MessageSpec == MessageInit /\ [][MessageNext]_vars

\* The message of this step is one the protocol does not allow: a wrong
\* number of descriptors, a wrong length, or an id that is not known.
ProtocolError ==
  /\ slog' # <<>>
  /\ slog'[1].k = "message_from_client"
  /\ \/ slog'[1].b # 0
     \/ slog'[1].f = "length"
     \/ slog'[1].a = "CRAS_SERVER_UNKNOWN"
\* The handler returned a negative error and did nothing else.
RejectedUntouched ==
  /\ Len(slog') = 2
  /\ slog'[2].k = "return" /\ slog'[2].b < 0
  /\ ServerEnvUnchanged

\* C32: a message from a client with a wrong number of descriptors, a wrong
\* length for its id or an unknown id makes the handler return a negative
\* error and perform no operation for the message.
C32_ProtocolErrorRejected == [][ProtocolError => RejectedUntouched]_vars

(***************************************************************************)
(*                      PART V - cras_file_wait.c                          *)
(***************************************************************************)
\* The file waited for lies PathLen components below the root directory.  A
\* path is written as the number of its components, the root being 0:
\* dirname takes the last component off, basename names it.  Components
\* 1 .. fs_depth exist; all but the last are directories the client can read
\* and search.  The names are short, so that the events queued fit one read.
PathLen == 3
MaxEvents == 3
MaxWatches == 3
file_path == PathLen
dirname(path) == path - 1
basename(path) == path
\* A file of a watched directory that is not on the path.
OtherFile == PathLen + 1

\* The watcher with the file system and the inotify instance as one
\* record, and its write-back.  race: another process creates the awaited
\* component between inotify_add_watch and access.
Wait(race) ==
  [fw |-> file_wait, depth |-> fs_depth, ino |-> inotify,
   cb |-> [NoDispatch EXCEPT !.ran = TRUE], race |-> race]
SetWait(w) ==
  /\ file_wait' = w.fw
  /\ fs_depth' = w.depth
  /\ inotify' = w.ino
  /\ wait_cb' = w.cb

\* The kernel side: one watch per directory, an event queued for the watch
\* of the directory it happens in.
HasWatch(w, dir) == \E x \in w.ino.watches : x.dir = dir
WatchOf(w, dir) == (CHOOSE x \in w.ino.watches : x.dir = dir).wd
queue_event(w, dir, mask, name) ==
  IF HasWatch(w, dir)
  THEN [w EXCEPT !.ino.events =
          Append(@, [wd |-> WatchOf(w, dir), mask |-> mask, name |-> name])]
  ELSE w
\* The directory is removed: its watch goes with it, IN_IGNORED is queued.
drop_watch(w, dir) ==
  IF HasWatch(w, dir)
  THEN [queue_event(w, dir, "IN_IGNORED", NoPath)
          EXCEPT !.ino.watches = {x \in @ : x.dir # dir}]
  ELSE w
create_component(w) ==
  queue_event([w EXCEPT !.depth = @ + 1], w.depth, "IN_CREATE", w.depth + 1)
delete_component(w) ==
  drop_watch(
    queue_event([w EXCEPT !.depth = @ - 1], w.depth - 1, "IN_DELETE",
                w.depth),
    w.depth)

dir_exists(w, dir) == dir <= w.depth /\ dir < PathLen
access(w, path) == path <= w.depth
\* inotify_add_watch, its result stored in watch_id: the watch the directory
\* already has, or a new one.
inotify_add_watch(w, dir) ==
  IF ~dir_exists(w, dir) THEN [w EXCEPT !.fw.watch_id = 0 - 1]
  ELSE IF HasWatch(w, dir) THEN [w EXCEPT !.fw.watch_id = WatchOf(w, dir)]
  ELSE [w EXCEPT !.fw.watch_id = w.ino.next_wd,
                 !.ino.watches = @ \cup {[wd |-> w.ino.next_wd, dir |-> dir]},
                 !.ino.next_wd = @ + 1]
\* inotify_rm_watch: EINVAL when the instance has no such watch.
inotify_rm_watch(w, wd) ==
  IF \E x \in w.ino.watches : x.wd = wd
  THEN [w EXCEPT !.ino.watches = {x \in @ : x.wd # wd},
                 !.ino.events =
                   Append(@, [wd |-> wd, mask |-> "IN_IGNORED",
                              name |-> NoPath]),
                 !.cb.rc = 0]
  ELSE [w EXCEPT !.cb.rc = 0 - EINVAL]

clear_watch(w) ==
  [w EXCEPT !.fw.watch_path = NoPath, !.fw.watch_dir = NoPath,
            !.fw.watch_file_name = NoPath]
cras_file_wait_rm_watch(w) ==
  IF w.fw.inotify_fd /\ w.fw.watch_id >= 0
  THEN [inotify_rm_watch(clear_watch(w), w.fw.watch_id)
          EXCEPT !.fw.watch_id = 0 - 1]
  ELSE [clear_watch(w) EXCEPT !.cb.rc = 0]

\* file_wait->callback(context, event, name)
callback(w, event, sync) ==
  [w EXCEPT !.cb.calls = Append(@, [event |-> event, sync |-> sync]),
            !.cb.rc = 0]

\* Variant that takes IN_IGNORED for an event of some other file.
C35_mutant_cras_file_wait_process_event(w, event) == w

cras_file_wait_process_event(w, event) ==
  IF event.wd # w.fw.watch_id THEN w
  ELSE IF event.mask = "IN_IGNORED"
  THEN cras_file_wait_rm_watch([w EXCEPT !.fw.watch_id = 0 - 1])
  ELSE IF event.name # w.fw.watch_file_name THEN w
  ELSE IF w.fw.watch_path = file_path
  THEN callback(w, IF event.mask = "IN_CREATE" THEN "CREATED" ELSE "DELETED",
                FALSE)
  ELSE cras_file_wait_rm_watch(w)

RECURSIVE process_events(_, _)
process_events(w, events) ==
  IF events = <<>> \/ w.cb.rc # 0 THEN w
  ELSE process_events(cras_file_wait_process_event(w, Head(events)),
                      Tail(events))

\* The read of the inotify descriptor at the start of the dispatch.
read_events(w) ==
  IF ~w.fw.inotify_fd THEN w
  ELSE IF w.ino.events = <<>>
  THEN (IF w.fw.watch_id < 0 THEN w ELSE [w EXCEPT !.cb.rc = 0 - EAGAIN])
  ELSE IF w.fw.watch_id < 0 THEN [w EXCEPT !.ino.events = <<>>]
  ELSE process_events([w EXCEPT !.ino.events = <<>>], w.ino.events)

\* The loop that finds the directory to watch.  set_paths: the start of a
\* pass, up to inotify_add_watch.
set_paths(w) ==
  [w EXCEPT !.fw.watch_path = w.fw.watch_dir,
            !.fw.watch_file_name = basename(w.fw.watch_dir),
            !.fw.watch_dir = dirname(w.fw.watch_dir)]
\* The file waited for is there when the watch on its directory is made.
mark_existed(w) ==
  IF w.fw.watch_path = file_path /\ access(w, file_path)
  THEN [w EXCEPT !.cb.existed = TRUE]
  ELSE w
raced(w) ==
  IF w.race /\ w.depth = w.fw.watch_path - 1
  THEN [create_component(w) EXCEPT !.race = FALSE]
  ELSE w

RECURSIVE watch_next(_)
start_over(w) ==
  IF w.cb.rc < 0 THEN w
  ELSE watch_next([w EXCEPT !.fw.watch_dir = file_path])

\* Variant without the check for a file that is there already.
C34_mutant_race_check(w) ==
  IF w.fw.watch_path = file_path \/ ~access(w, w.fw.watch_path)
  THEN [w EXCEPT !.cb.rc = 0]
  ELSE start_over(cras_file_wait_rm_watch(w))

\* access(watch_path) after the watch was added.
race_check(w) ==
  IF ~access(w, w.fw.watch_path) THEN [w EXCEPT !.cb.rc = 0]
  ELSE IF w.fw.watch_path = file_path THEN callback(w, "CREATED", TRUE)
  ELSE start_over(cras_file_wait_rm_watch(w))

watch_added(w) ==
  IF w.fw.watch_id < 0 THEN watch_next(w)
  ELSE race_check(raced(mark_existed(w)))

watch_next(w) ==
  watch_added(inotify_add_watch(set_paths(w), dirname(w.fw.watch_dir)))

after_read(w) ==
  IF w.cb.rc < 0 \/ w.fw.watch_id >= 0 THEN w
  ELSE watch_next([w EXCEPT !.fw.inotify_fd = TRUE,
                            !.fw.watch_dir = file_path])

cras_file_wait_dispatch(w) == after_read(read_events(w))

\* cras_file_wait_destroy closes the inotify descriptor.
cras_file_wait_destroy(w) ==
  [w EXCEPT !.fw = NoFileWait, !.ino = NoInotify]
created(w) == IF w.cb.rc < 0 THEN cras_file_wait_destroy(w) ELSE w
cras_file_wait_create(w) ==
  created(cras_file_wait_dispatch(
            [w EXCEPT !.fw = [NoFileWait EXCEPT !.allocated = TRUE]]))

WaitStep(w) ==
  /\ Len(w.ino.events) <= MaxEvents
  /\ w.ino.next_wd <= MaxWatches + 1
  /\ SetWait(w)
  /\ UNCHANGED <<client_vars, server_vars, floop_vars, audio_vars, api_vars>>

FileWaitCreate ==
  /\ ~file_wait.allocated
  /\ \E race \in BOOLEAN : WaitStep(cras_file_wait_create(Wait(race)))
  /\ announced' = wait_cb'.existed

\* The owner of the watcher calls the dispatch, with or without an event to
\* read.
FileWaitDispatch ==
  /\ file_wait.allocated
  /\ \E race \in BOOLEAN : WaitStep(cras_file_wait_dispatch(Wait(race)))
  /\ announced' = (announced \/ wait_cb'.existed)

FileWaitDestroy ==
  /\ file_wait.allocated
  /\ WaitStep([cras_file_wait_destroy(Wait(FALSE)) EXCEPT !.cb = NoDispatch])
  /\ announced' = FALSE

\* Other processes create and delete the components of the path, and other
\* files in the directory that is watched.
EnvStep(w) == WaitStep([w EXCEPT !.cb = NoDispatch])
PathCreate ==
  /\ fs_depth < PathLen
  /\ EnvStep(create_component(Wait(FALSE)))
  /\ UNCHANGED announced
PathDelete ==
  /\ fs_depth > 0
  /\ EnvStep(delete_component(Wait(FALSE)))
  /\ announced' = (announced /\ fs_depth < PathLen)
OtherFileCreated ==
  /\ \E x \in inotify.watches :
       EnvStep(queue_event(Wait(FALSE), x.dir, "IN_CREATE", OtherFile))
  /\ UNCHANGED announced

WaitInit ==
  RoutingStart /\ IdleTimersOff /\ WaitStart /\ fs_depth \in 0 .. PathLen
WaitNext ==
  \/ FileWaitCreate
  \/ FileWaitDispatch
  \/ FileWaitDestroy
  \/ PathCreate
  \/ PathDelete
  \/ OtherFileCreated
WaitSpec == WaitInit /\ [][WaitNext]_vars

\* The watch the dispatch left behind.
RightWatch ==
  inotify.watches =
    {[wd |-> file_wait.watch_id, dir |-> Min2(fs_depth, PathLen - 1)]}

\* C35: whenever cras_file_wait_dispatch has returned 0 the watcher holds one
\* inotify watch, on the parent directory of the first component of the path
\* that does not exist, and on the parent directory of the file when all the
\* directories above it exist.
C35_WatchPlacement == (wait_cb.ran /\ wait_cb.rc = 0) => RightWatch
\* The watch was set up anew after a directory above the file was created or
\* the watched directory was deleted.
C35_Witness ==
  /\ wait_cb.ran /\ wait_cb.rc = 0 /\ RightWatch
  /\ file_wait.watch_id > 1
  /\ fs_depth < PathLen - 1

SyncCreated(calls) ==
  SelectSeq(calls, LAMBDA c : c.event = "CREATED" /\ c.sync)
AllCreated(calls) == SelectSeq(calls, LAMBDA c : c.event = "CREATED")

\* C34: when the file is there at the moment the watch on its directory is
\* made, the dispatch that makes the watch, the one inside
\* cras_file_wait_create included, calls the callback with CREATED itself,
\* once, and no dispatch reports CREATED again while the file stays.
C34_CreatedOnce ==
  [][/\ wait_cb'.existed => Len(SyncCreated(wait_cb'.calls)) = 1
     /\ (announced /\ wait_cb'.ran) => AllCreated(wait_cb'.calls) = <<>>]_vars
C34_Witness ==
  /\ wait_cb.existed /\ Len(SyncCreated(wait_cb.calls)) = 1
  /\ announced /\ file_wait.watch_id > 1

====
